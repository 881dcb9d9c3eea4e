----------------------------- MODULE TcpCarProofs -----------------------------
(***************************************************************************)
(* Proofs about TcpCar, for any connections, frames, scans, times and       *)
(* bounds.                                                                   *)
(***************************************************************************)
EXTENDS TcpCar, SequenceTheorems, TLAPS

\* Steps that name a frame, and the frame they name.
Numbered(step) == step[1] \in {"move", "launch", "track", "newShow", "newEffect"}
NumberIn(step) == IF step[1] \in {"newShow", "newEffect"} THEN step[2][1] ELSE step[2]

Calm(steps) == \A i \in 1 .. Len(steps) : ~Numbered(steps[i])

\* The steps name no frame but n, and do each thing that is named once; a
\* worker is launched right after it was registered.
Owned(steps, n) ==
    \A i \in 1 .. Len(steps) : Numbered(steps[i]) =>
        /\ NumberIn(steps[i]) = n
        /\ \A j \in 1 .. Len(steps) : steps[j][1] = steps[i][1] => j = i
        /\ steps[i][1] = "launch" => i > 1 /\ steps[i - 1][1] \in {"newShow", "newEffect"}

\* Steps that name no frame, one after the other, and before others.
LEMMA CalmSteps ==
    ASSUME NEW s \in Seq(Steps), NEW r \in Seq(Steps), NEW n, Calm(s)
    PROVE  /\ s \o r \in Seq(Steps)
           /\ Calm(r) => Calm(s \o r)
           /\ Owned(r, n) => Owned(s \o r, n)
<1>1. /\ s \o r \in Seq(Steps) /\ Len(s \o r) = Len(s) + Len(r)
      /\ \A i \in 1 .. Len(s \o r) : (s \o r)[i] = IF i <= Len(s) THEN s[i] ELSE r[i - Len(s)]
  OBVIOUS
<1>2. Len(s) \in Nat /\ Len(r) \in Nat
  OBVIOUS
<1>3. Calm(r) => Calm(s \o r)
  BY <1>1, <1>2 DEF Calm
<1>4. ASSUME Owned(r, n)
      PROVE  Owned(s \o r, n)
  <2> DEFINE both == s \o r
  <2>1. \A i \in 1 .. Len(both) : Numbered(both[i]) =>
            i - Len(s) \in 1 .. Len(r) /\ both[i] = r[i - Len(s)] /\ Numbered(r[i - Len(s)])
    BY <1>1, <1>2 DEF Calm
  <2>2. Len(both) = Len(s) + Len(r)
    BY <1>1
  <2>3. \A i \in 1 .. Len(r) : i + Len(s) \in 1 .. Len(both) /\ both[i + Len(s)] = r[i]
    BY <1>1, <1>2
  <2> HIDE DEF both
  <2> SUFFICES ASSUME NEW i \in 1 .. Len(both), Numbered(both[i])
               PROVE  /\ NumberIn(both[i]) = n
                      /\ \A j \in 1 .. Len(both) : both[j][1] = both[i][1] => j = i
                      /\ both[i][1] = "launch" => i > 1 /\ both[i - 1][1] \in {"newShow", "newEffect"}
    BY DEF Owned, both
  <2>4. i - Len(s) \in 1 .. Len(r) /\ both[i] = r[i - Len(s)] /\ Numbered(r[i - Len(s)])
    BY <2>1
  <2>5. NumberIn(both[i]) = n
    BY <1>4, <2>4 DEF Owned
  <2>6. ASSUME NEW j \in 1 .. Len(both), both[j][1] = both[i][1]
        PROVE  j = i
    <3>1. Numbered(both[j])
      BY <2>6 DEF Numbered
    <3>2. j - Len(s) \in 1 .. Len(r) /\ both[j] = r[j - Len(s)]
      BY <2>1, <3>1
    <3>3. j - Len(s) = i - Len(s)
      BY <1>4, <2>4, <2>6, <3>2 DEF Owned
    <3> QED
      BY <1>2, <3>3
  <2>7. ASSUME both[i][1] = "launch"
        PROVE  i > 1 /\ both[i - 1][1] \in {"newShow", "newEffect"}
    <3>1. i - Len(s) > 1 /\ r[i - Len(s) - 1][1] \in {"newShow", "newEffect"}
      BY <1>4, <2>4, <2>7 DEF Owned
    <3> DEFINE k == i - Len(s)
    <3>0. i = k + Len(s) /\ k \in 1 .. Len(r) /\ k \in Nat
      BY <1>2, <2>4
    <3>2. k - 1 \in 1 .. Len(r) /\ (k - 1) + Len(s) = i - 1 /\ i > 1
      BY <1>2, <3>0, <3>1
    <3>3. both[i - 1] = r[k - 1]
      BY <2>3, <3>2
    <3> QED
      BY <3>1, <3>2, <3>3
  <2> QED
    BY <2>5, <2>6, <2>7
<1> QED
  BY <1>1, <1>3, <1>4

LEMMA CalmOwned == \A s, n : Calm(s) => Owned(s, n)
  BY DEF Calm, Owned

LEMMA SingleStep ==
    ASSUME NEW step \in Steps, ~Numbered(step)
    PROVE  <<step>> \in Seq(Steps) /\ Calm(<<step>>)
  BY DEF Calm

LEMMA OneStep ==
    ASSUME NEW name \in {"takeShow", "takeEffect", "cancel", "stop", "kill", "fail", "silence", "awaitStop"}
    PROVE  <<<<name, 0>>>> \in Seq(Steps) /\ Calm(<<<<name, 0>>>>)
<1>1. <<name, 0>> \in Steps /\ ~Numbered(<<name, 0>>)
  BY DEF Steps, Numbered
<1> QED
  BY <1>1, SingleStep

LEMMA SceneSteps ==
    ASSUME serial \in BOOLEAN, NEW s \in 0 .. 6, serial => s <= 3
    PROVE  /\ Scene(s) \in Seq(Steps) /\ Calm(Scene(s))
           /\ Packets(s) \in Seq(PacketsOfLamps) /\ Packets(s) # <<>>
<1>1. Packets(s) \in Seq(PacketsOfLamps) /\ Packets(s) # <<>>
  <2>0. \A p, q \in PacketsOfLamps : /\ <<p>> \in Seq(PacketsOfLamps) /\ <<p>> # <<>>
                                     /\ <<p, q>> \in Seq(PacketsOfLamps) /\ <<p, q>> # <<>>
    OBVIOUS
  <2>1. CASE ~serial
    <3>1. Packets(s) = <<<<"publish", s>>>>
      BY <2>1 DEF Packets
    <3>2. <<"publish", s>> \in PacketsOfLamps
      BY <2>1 DEF PacketsOfLamps
    <3> QED
      BY <2>0, <3>1, <3>2
  <2>2. CASE serial
    <3>1. /\ <<"both", 0>> \in PacketsOfLamps /\ <<"both", 1>> \in PacketsOfLamps
          /\ <<"left", 1>> \in PacketsOfLamps /\ <<"right", 1>> \in PacketsOfLamps
      BY <2>2 DEF PacketsOfLamps, Sides
    <3>2. s \in {0, 1, 2, 3}
      BY <2>2
    <3>3. Packets(s) \in {<<<<"both", 0>>>>, <<<<"both", 1>>>>, <<<<"both", 0>>, <<"left", 1>>>>,
                          <<<<"both", 0>>, <<"right", 1>>>>}
      BY <2>2, <3>2 DEF Packets, Off, On, Left, Right
    <3> QED
      BY <2>0, <3>1, <3>3
  <2> QED
    BY <2>1, <2>2
<1>2. /\ DOMAIN Packets(s) = 1 .. Len(Packets(s))
      /\ \A i \in 1 .. Len(Packets(s)) : Packets(s)[i] \in PacketsOfLamps
  BY <1>1
<1>3. \A p \in PacketsOfLamps : <<"light", p>> \in Steps
  BY DEF Steps
<1> HIDE DEF Packets
<1>4. /\ Len(Packets(s)) \in Nat
      /\ Scene(s) = [i \in 1 .. Len(Packets(s)) |-> <<"light", Packets(s)[i]>>]
  BY <1>1, <1>2 DEF Scene
<1>5. Scene(s) \in Seq(Steps) /\ Len(Scene(s)) = Len(Packets(s))
  BY <1>2, <1>3, <1>4
<1>6. \A i \in 1 .. Len(Scene(s)) : Scene(s)[i][1] = "light"
  BY <1>4, <1>5
<1>7. Calm(Scene(s))
  BY <1>6 DEF Calm, Numbered
<1> QED
  BY <1>1, <1>5, <1>7

LEMMA PartSteps ==
    ASSUME serial \in BOOLEAN, NEW off \in BOOLEAN
    PROVE  /\ StopShow(off) \in Seq(Steps) /\ Calm(StopShow(off))
           /\ StopEffect(off) \in Seq(Steps) /\ Calm(StopEffect(off))
           /\ IfShow(off) \in Seq(Steps) /\ Calm(IfShow(off))
<1> DEFINE dark == IF off THEN Scene(Off) ELSE <<>>
<1>1. dark \in Seq(Steps) /\ Calm(dark)
  <2>1. <<>> \in Seq(Steps) /\ Calm(<<>>)
    BY DEF Calm
  <2> QED
    BY <2>1, SceneSteps DEF Off
<1>2. StopShow(off) \in Seq(Steps) /\ Calm(StopShow(off))
  BY <1>1, OneStep, CalmSteps DEF StopShow
<1>3. StopEffect(off) \in Seq(Steps) /\ Calm(StopEffect(off))
  <2>1. <<>> \in Seq(Steps) /\ Calm(<<>>)
    BY DEF Calm
  <2> QED
    BY <1>1, <2>1, OneStep, CalmSteps DEF StopEffect
<1>4. IfShow(off) \in Seq(Steps) /\ Calm(IfShow(off))
  <2>1. <<"ifShow", off>> \in Steps
    BY DEF Steps
  <2>2. ~Numbered(<<"ifShow", off>>)
    BY DEF Numbered
  <2> QED
    BY <2>1, <2>2, SingleStep DEF IfShow
<1> QED
  BY <1>2, <1>3, <1>4

LEMMA MotionSceneSteps ==
    ASSUME serial \in BOOLEAN, NEW s \in 0 .. 3
    PROVE  MotionScene(s) \in Seq(Steps) /\ Calm(MotionScene(s))
<1>1. Scene(s) \in Seq(Steps) /\ Calm(Scene(s))
  BY SceneSteps
<1>2. /\ IfShow(TRUE) \in Seq(Steps) /\ Calm(IfShow(TRUE))
      /\ StopEffect(FALSE) \in Seq(Steps) /\ Calm(StopEffect(FALSE))
  BY PartSteps
<1>3. IfShow(TRUE) \o StopEffect(FALSE) \in Seq(Steps) /\ Calm(IfShow(TRUE) \o StopEffect(FALSE))
  BY <1>2, CalmSteps
<1> QED
  BY <1>1, <1>3, CalmSteps DEF MotionScene

\* The steps of a handler for frame n.
Handler(steps, n) == steps \in Seq(Steps) /\ Owned(steps, n)

LEMMA CalmHandler ==
    ASSUME NEW s \in Seq(Steps), NEW r, NEW n, Calm(s), Handler(r, n)
    PROVE  Handler(s \o r, n)
  BY CalmSteps DEF Handler

LEMMA SmallHandlers ==
    ASSUME Number \in Ids
    PROVE  /\ Handler(Move, Number) /\ Handler(Fail, Number) /\ Handler(<<>>, Number)
           /\ \A name \in {"takeShow", "takeEffect", "cancel", "stop", "kill", "silence", "awaitStop"} :
                  Handler(<<<<name, 0>>>>, Number)
           /\ \A track \in 0 .. 255 : Handler(<<<<"play", track>>>>, Number)
           /\ \A part \in Parts : Handler(<<<<"close", part>>>>, Number)
           /\ Handler(<<<<"kill", 0>>, <<"track", Number>>>>, Number)
           /\ \A e \in DOMAIN Patterns :
                  Handler(<<<<"newEffect", <<Number, e>>>>, <<"launch", Number>>>>, Number)
           /\ Handler(<<<<"newShow", <<Number, 0>>>>, <<"launch", Number>>, <<"play", 3>>>>, Number)
<1>1. /\ <<"cancel", 0>> \in Steps /\ <<"move", Number>> \in Steps /\ <<"track", Number>> \in Steps
      /\ <<"launch", Number>> \in Steps /\ <<"newShow", <<Number, 0>>>> \in Steps
      /\ \A e \in DOMAIN Patterns : <<"newEffect", <<Number, e>>>> \in Steps
      /\ \A track \in 0 .. 255 : <<"play", track>> \in Steps
      /\ \A part \in Parts : <<"close", part>> \in Steps
  BY DEF Steps
<1> DEFINE n == Number
<1> HIDE DEF n
<1>2. Handler(Move, n)
  <2>1. <<"cancel", 0>> \in Steps /\ <<"move", n>> \in Steps
    BY <1>1 DEF n
  <2>2. <<<<"cancel", 0>>, <<"move", n>>>> \in Seq(Steps)
    BY <2>1
  <2>3. Owned(<<<<"cancel", 0>>, <<"move", n>>>>, n)
    BY DEF Owned, Numbered, NumberIn
  <2> QED
    BY <2>2, <2>3 DEF Move, Handler, n
<1>3. Handler(Fail, Number) /\ Handler(<<>>, Number)
  <2>1. Handler(Fail, Number)
    BY OneStep, CalmOwned DEF Fail, Handler
  <2>2. <<>> \in Seq(Steps) /\ Calm(<<>>)
    BY DEF Calm
  <2> QED
    BY <2>1, <2>2, CalmOwned DEF Handler
<1>4. \A name \in {"takeShow", "takeEffect", "cancel", "stop", "kill", "silence", "awaitStop"} :
          Handler(<<<<name, 0>>>>, Number)
  BY OneStep, CalmOwned DEF Handler
<1>5. /\ \A track \in 0 .. 255 : Handler(<<<<"play", track>>>>, Number)
      /\ \A part \in Parts : Handler(<<<<"close", part>>>>, Number)
  <2>1. /\ \A track : ~Numbered(<<"play", track>>)
        /\ \A part : ~Numbered(<<"close", part>>)
    BY DEF Numbered
  <2> QED
    BY <1>1, <2>1, SingleStep, CalmOwned DEF Handler
<1>6. \A e \in DOMAIN Patterns : Handler(<<<<"newEffect", <<n, e>>>>, <<"launch", n>>>>, n)
  <2> SUFFICES ASSUME NEW e \in DOMAIN Patterns
               PROVE  Handler(<<<<"newEffect", <<n, e>>>>, <<"launch", n>>>>, n)
    OBVIOUS
  <2>1. <<"newEffect", <<n, e>>>> \in Steps /\ <<"launch", n>> \in Steps
    BY <1>1 DEF n
  <2>2. <<<<"newEffect", <<n, e>>>>, <<"launch", n>>>> \in Seq(Steps)
    BY <2>1
  <2>3. Owned(<<<<"newEffect", <<n, e>>>>, <<"launch", n>>>>, n)
    BY DEF Owned, Numbered, NumberIn
  <2> QED
    BY <2>2, <2>3 DEF Handler
<1>7. Handler(<<<<"newShow", <<n, 0>>>>, <<"launch", n>>, <<"play", 3>>>>, n)
  <2>1. <<"newShow", <<n, 0>>>> \in Steps /\ <<"launch", n>> \in Steps /\ <<"play", 3>> \in Steps
    BY <1>1 DEF n
  <2>2. <<<<"newShow", <<n, 0>>>>, <<"launch", n>>, <<"play", 3>>>> \in Seq(Steps)
    BY <2>1
  <2>3. Owned(<<<<"newShow", <<n, 0>>>>, <<"launch", n>>, <<"play", 3>>>>, n)
    BY DEF Owned, Numbered, NumberIn
  <2> QED
    BY <2>2, <2>3 DEF Handler
<1>8. Handler(<<<<"kill", 0>>, <<"track", n>>>>, n)
  <2>1. <<"kill", 0>> \in Steps /\ <<"track", n>> \in Steps
    BY <1>1 DEF Steps, n
  <2>2. <<<<"kill", 0>>, <<"track", n>>>> \in Seq(Steps)
    BY <2>1
  <2>3. Owned(<<<<"kill", 0>>, <<"track", n>>>>, n)
    BY DEF Owned, Numbered, NumberIn
  <2> QED
    BY <2>2, <2>3 DEF Handler
<1> QED
  BY <1>2, <1>3, <1>4, <1>5, <1>6, <1>7, <1>8 DEF n

LEMMA FirstByte ==
    ASSUME NEW data \in Seq(0 .. 255), data # <<>> \/ ~(Len(data) < 1)
    PROVE  data[1] \in 0 .. 255
<1>1. Len(data) \in Nat /\ Len(data) >= 1
  BY EmptySeq
<1>2. 1 \in 1 .. Len(data)
  BY <1>1
<1> QED
  BY <1>2, ElementOfSeq

LEMMA SeveralSteps ==
    ASSUME NEW a \in Steps, NEW b \in Steps, NEW c \in Steps, NEW d \in Steps,
           ~Numbered(a), ~Numbered(b), ~Numbered(c), ~Numbered(d)
    PROVE  /\ <<a, b>> \in Seq(Steps) /\ Calm(<<a, b>>)
           /\ <<a, b, c, d>> \in Seq(Steps) /\ Calm(<<a, b, c, d>>)
<1>1. <<a, b>> \in Seq(Steps) /\ Calm(<<a, b>>)
  BY DEF Calm
<1>2. <<a, b, c, d>> \in Seq(Steps) /\ Calm(<<a, b, c, d>>)
  BY DEF Calm
<1> QED
  BY <1>1, <1>2

LEMMA ButtonSteps ==
    ASSUME serial \in BOOLEAN, Number \in Ids, NEW data \in Seq(0 .. 255)
    PROVE  /\ Handler(HandleButton(data), Number)
           /\ Handler(HandleVector(data), Number)
           /\ Handler(HandleWheelSpeeds(data), Number)
<1>1. \A h : Handler(h, Number) => Handler(IfShow(TRUE) \o h, Number)
  BY PartSteps, CalmHandler
<1>2. Handler(Move, Number) /\ Handler(Fail, Number)
  BY SmallHandlers
<1>3. \A s \in 0 .. 3 : Handler(MotionScene(s) \o Move, Number)
  BY <1>2, MotionSceneSteps, CalmHandler
<1>4. Handler(MotionScene(Off) \o <<<<"stop", 0>>>>, Number)
  <2>1. MotionScene(Off) \in Seq(Steps) /\ Calm(MotionScene(Off))
    BY MotionSceneSteps DEF Off
  <2>2. Handler(<<<<"stop", 0>>>>, Number)
    BY SmallHandlers
  <2> QED
    BY <2>1, <2>2, CalmHandler
<1>5. Handler(HandleButton(data), Number)
  <2>1. CASE Len(data) < 1
    BY <1>2, <2>1 DEF HandleButton
  <2>2. CASE ~(Len(data) < 1)
    <3> DEFINE rest == CASE data[1] \in {0, 7} -> MotionScene(Off) \o <<<<"stop", 0>>>>
                         [] data[1] \in 1 .. 6 -> MotionScene(DirectionScene(data[1])) \o Move
                         [] OTHER -> Fail
    <3>1. Handler(rest, Number)
      <4>1. data[1] \in 0 .. 255
        BY <2>2, FirstByte
      <4>2. CASE data[1] \in {0, 7}
        <5>1. rest = MotionScene(Off) \o <<<<"stop", 0>>>>
          BY <4>2
        <5> QED
          BY <1>4, <5>1
      <4>3. CASE data[1] \in 1 .. 6
        <5>1. rest = MotionScene(DirectionScene(data[1])) \o Move
          BY <4>3
        <5>2. DirectionScene(data[1]) \in 0 .. 3
          BY <4>3 DEF DirectionScene, On, Left, Right
        <5> QED
          BY <1>3, <5>1, <5>2
      <4>4. CASE data[1] \notin {0, 7} /\ data[1] \notin 1 .. 6
        BY <1>2, <4>4
      <4> QED
        BY <4>2, <4>3, <4>4
    <3>2. HandleButton(data) = IfShow(TRUE) \o rest
      BY <2>2 DEF HandleButton
    <3> HIDE DEF rest
    <3> QED
      BY <1>1, <3>1, <3>2
  <2> QED
    BY <2>1, <2>2
<1>6. Handler(HandleVector(data), Number) /\ Handler(HandleWheelSpeeds(data), Number)
  BY <1>1, <1>2 DEF HandleVector, HandleWheelSpeeds
<1> QED
  BY <1>5, <1>6

LEMMA LightEffectSteps ==
    ASSUME serial \in BOOLEAN, Number \in Ids, NEW data \in Seq(0 .. 255)
    PROVE  Handler(HandleLightEffect(data), Number)
<1>1. CASE Len(data) < 1 \/ data[1] > 6
  BY <1>1, SmallHandlers DEF HandleLightEffect
<1>2. CASE ~(Len(data) < 1 \/ data[1] > 6)
  <2>1. data[1] \in 0 .. 6
    <3>1. data[1] \in 0 .. 255
      BY <1>2, FirstByte
    <3>2. \A n \in 0 .. 255 : ~(n > 6) => n \in 0 .. 6
      OBVIOUS
    <3> QED
      BY <1>2, <3>1, <3>2
  <2>2. /\ \A h : Handler(h, Number) => Handler(IfShow(FALSE) \o h, Number)
        /\ \A h : Handler(h, Number) => Handler(StopEffect(FALSE) \o h, Number)
    BY PartSteps, CalmHandler
  <2>3. CASE ~serial
    <3>1. Handler(Scene(data[1]), Number)
      BY <2>1, <2>3, SceneSteps, CalmOwned DEF Handler
    <3> QED
      BY <1>2, <2>2, <2>3, <3>1 DEF HandleLightEffect
  <2>4. CASE serial
    <3> DEFINE rest == CASE data[1] = 0 -> Scene(Off)
                         [] data[1] \in DOMAIN Patterns ->
                                <<<<"newEffect", <<Number, data[1]>>>>, <<"launch", Number>>>>
                         [] OTHER -> Fail
    <3>1. 0 \notin DOMAIN Patterns
      BY DEF Patterns
    <3>2. Handler(rest, Number)
      <4>1. CASE data[1] = 0
        <5>1. rest = Scene(Off)
          BY <3>1, <4>1
        <5>2. Scene(Off) \in Seq(Steps) /\ Calm(Scene(Off))
          BY SceneSteps DEF Off
        <5> QED
          BY <5>1, <5>2, CalmOwned DEF Handler
      <4>2. CASE data[1] \in DOMAIN Patterns
        <5>1. rest = <<<<"newEffect", <<Number, data[1]>>>>, <<"launch", Number>>>>
          BY <3>1, <4>2
        <5> QED
          BY <4>2, <5>1, SmallHandlers
      <4>3. CASE data[1] # 0 /\ data[1] \notin DOMAIN Patterns
        <5>1. rest = Fail
          BY <4>3
        <5> QED
          BY <5>1, SmallHandlers
      <4> QED
        BY <4>1, <4>2, <4>3
    <3>3. HandleLightEffect(data) = IfShow(FALSE) \o (StopEffect(FALSE) \o rest)
      BY <1>2, <2>4 DEF HandleLightEffect
    <3> HIDE DEF rest
    <3> QED
      BY <2>2, <3>2, <3>3
  <2> QED
    BY <2>3, <2>4
<1> QED
  BY <1>1, <1>2

LEMMA FrameSteps ==
    ASSUME serial \in BOOLEAN, Number \in Ids, NEW f \in Frames
    PROVE  Handler(HandleFrame(f), Number)
<1>1. f.data \in Seq(0 .. 255)
  BY TcpAssumption
<1>2. /\ Handler(HandleButton(f.data), Number) /\ Handler(HandleVector(f.data), Number)
      /\ Handler(HandleWheelSpeeds(f.data), Number) /\ Handler(HandleLightEffect(f.data), Number)
  BY <1>1, ButtonSteps, LightEffectSteps
<1>3. /\ StopShow(TRUE) \in Seq(Steps) /\ Calm(StopShow(TRUE))
      /\ StopEffect(TRUE) \in Seq(Steps) /\ Calm(StopEffect(TRUE))
      /\ IfShow(TRUE) \in Seq(Steps) /\ Calm(IfShow(TRUE))
  BY PartSteps
<1>4. Handler(StopShow(TRUE), Number) /\ Handler(<<>>, Number)
  BY <1>3, CalmOwned, SmallHandlers DEF Handler
<1>5. Handler(ShowStart, Number)
  <2>1. StopEffect(TRUE) \o StopShow(TRUE) \in Seq(Steps) /\ Calm(StopEffect(TRUE) \o StopShow(TRUE))
    BY <1>3, CalmSteps
  <2>2. Handler(<<<<"newShow", <<Number, 0>>>>, <<"launch", Number>>, <<"play", 3>>>>, Number)
    BY SmallHandlers
  <2> QED
    BY <2>1, <2>2, CalmHandler DEF ShowStart
<1>6. Handler(HandleAudio(f.data), Number)
  <2>1. \A track \in 0 .. 255 : Handler(<<<<"play", track>>>>, Number)
    BY SmallHandlers
  <2>2. f.data # <<>> => f.data[1] \in 0 .. 255
    BY <1>1, FirstByte
  <2>3. Handler(Fail, Number)
    BY SmallHandlers
  <2>4. (IF f.data = <<>> THEN 0 ELSE f.data[1]) \in 0 .. 255
    BY <2>2
  <2> QED
    BY <2>1, <2>3, <2>4 DEF HandleAudio
<1>7. Handler(TrackingStart, Number) /\ Handler(TrackingStop, Number)
  <2>1. <<"kill", 0>> \in Steps /\ <<"cancel", 0>> \in Steps
    BY DEF Steps
  <2>2. ~Numbered(<<"kill", 0>>) /\ ~Numbered(<<"cancel", 0>>)
    BY DEF Numbered
  <2>3. Handler(<<<<"kill", 0>>, <<"track", Number>>>>, Number)
    BY SmallHandlers
  <2>4. Handler(<<<<"kill", 0>>, <<"cancel", 0>>>>, Number)
    BY <2>1, <2>2, SeveralSteps, CalmOwned DEF Handler
  <2> QED
    BY <1>3, <2>3, <2>4, CalmHandler DEF TrackingStart, TrackingStop
<1> QED
  BY <1>2, <1>4, <1>5, <1>6, <1>7 DEF HandleFrame

LEMMA OtherHandlers ==
    ASSUME serial \in BOOLEAN, Number \in Ids
    PROVE  Handler(FrontWarning, Number) /\ Handler(Close, Number)
<1> USE SmallHandlers
<1>1. Handler(FrontWarning, Number)
  <2>1. Handler(<<<<"play", 0>>>>, Number)
    OBVIOUS
  <2>2. MotionScene(On) \in Seq(Steps) /\ Calm(MotionScene(On))
    BY MotionSceneSteps DEF On
  <2> QED
    BY <2>1, <2>2, CalmHandler DEF FrontWarning
<1>2. Handler(Close, Number)
  <2>1. /\ <<"close", "monitor">> \in Steps /\ <<"close", "serial">> \in Steps
        /\ <<"close", "publisher">> \in Steps /\ <<"silence", 0>> \in Steps
        /\ <<"awaitStop", 0>> \in Steps /\ <<"cancel", 0>> \in Steps
    BY DEF Steps, Parts
  <2>2. /\ StopShow(TRUE) \in Seq(Steps) /\ Calm(StopShow(TRUE))
        /\ StopEffect(TRUE) \in Seq(Steps) /\ Calm(StopEffect(TRUE))
    BY PartSteps
  <2> DEFINE first == <<<<"close", "monitor">>, <<"silence", 0>>>>
             last == <<<<"awaitStop", 0>>, <<"close", "serial">>, <<"cancel", 0>>,
                       <<"close", "publisher">>>>
  <2>3. first \in Seq(Steps) /\ Calm(first)
    <3>1. ~Numbered(<<"close", "monitor">>) /\ ~Numbered(<<"silence", 0>>)
      BY DEF Numbered
    <3> QED
      BY <2>1, <3>1, SeveralSteps
  <2>4. Handler(last, Number)
    <3>1. /\ ~Numbered(<<"awaitStop", 0>>) /\ ~Numbered(<<"close", "serial">>)
          /\ ~Numbered(<<"cancel", 0>>) /\ ~Numbered(<<"close", "publisher">>)
      BY DEF Numbered
    <3> QED
      BY <2>1, <3>1, SeveralSteps, CalmOwned DEF Handler
  <2>5. Close = first \o StopShow(TRUE) \o StopEffect(TRUE) \o last
    BY DEF Close
  <2> HIDE DEF first, last
  <2>6. first \o StopShow(TRUE) \in Seq(Steps) /\ Calm(first \o StopShow(TRUE))
    BY <2>2, <2>3, CalmSteps
  <2>7. /\ first \o StopShow(TRUE) \o StopEffect(TRUE) \in Seq(Steps)
        /\ Calm(first \o StopShow(TRUE) \o StopEffect(TRUE))
    BY <2>2, <2>6, CalmSteps
  <2> QED
    BY <2>4, <2>5, <2>7, CalmHandler
<1> QED
  BY <1>1, <1>2

----------------------------------------------------------------------------
\* What is left of a handler for frame n: a worker that was registered in it
\* is launched by the next step.
LeftOf(steps, n) ==
    \A i \in 1 .. Len(steps) : Numbered(steps[i]) =>
        /\ NumberIn(steps[i]) = n
        /\ \A j \in 1 .. Len(steps) : steps[j][1] = steps[i][1] => j = i
        /\ steps[i][1] = "launch" /\ i > 1 => steps[i - 1][1] \in {"newShow", "newEffect"}

\* A frame's number is used by one thread.
FramesApart ==
    \E of \in [Threads -> 0 .. begun] :
        /\ \A t \in Threads : LeftOf(todo[t], of[t])
        /\ \A t, u \in Threads : t # u /\ of[t] = of[u] => of[t] = 0

\* A motion that is still to be started has not begun; one that runs and is
\* not in the slot was displaced; and a stop is owed to what has begun.
MotionsSound ==
    /\ \A m \in Ids : motion[m] # "none" => m <= begun
    /\ \A m \in Ids : motion[m] = "runs" => slot = m \/ m \in displaced
    /\ slot # None => motion[slot] # "none"
    /\ \A m \in owed : motion[m] # "none"
    /\ \A t \in Threads : \A i \in 1 .. Len(todo[t]) :
           todo[t][i][1] = "move" => motion[todo[t][i][2]] = "none"

\* A worker waits to be launched, and one that runs an effect has a pattern.
WorkersSound ==
    /\ \A t \in Threads : todo[t] # <<>> /\ todo[t][1][1] = "launch"
                              => worker[todo[t][1][2]].st = "new"
    /\ \A w \in Ids : worker[w].st \notin {"none", "done"} /\ ~worker[w].show
                          => worker[w].scenes # <<>>

\* The time of the last warning is the one the monitor remembers, and the way
\* is only taken for clear when a clear scan came the time of dwell after the
\* first one.
MonitorSound ==
    /\ sinceWarning = quiet
    /\ clearFor <= firstClear /\ clearSpan <= firstClear
    /\ ~blocked => clearFor >= Dwell /\ clearSpan >= Dwell

IInv == TypeOK /\ FramesApart /\ MotionsSound /\ StopIsHeard /\ WorkersSound /\ MonitorSound

----------------------------------------------------------------------------
\* What a thread has left when it goes on.
New == {"newShow", "newEffect"}

LEMMA Shorter ==
    ASSUME NEW s \in Seq(Steps), s # <<>>
    PROVE  /\ Tail(s) \in Seq(Steps) /\ s[1] \in Steps /\ Len(Tail(s)) = Len(s) - 1
           /\ 1 \in 1 .. Len(s) /\ Len(s) \in Nat
           /\ \A i \in 1 .. Len(Tail(s)) : i + 1 \in 1 .. Len(s) /\ Tail(s)[i] = s[i + 1]
<1>1. /\ Tail(s) \in Seq(Steps) /\ Len(Tail(s)) = Len(s) - 1
      /\ \A i \in 1 .. Len(Tail(s)) : Tail(s)[i] = s[i + 1]
  BY HeadTailProperties
<1>2. Len(s) \in Nat /\ Len(s) # 0
  BY EmptySeq
<1>3. 1 \in 1 .. Len(s) /\ \A i \in 1 .. Len(Tail(s)) : i + 1 \in 1 .. Len(s)
  BY <1>1, <1>2
<1>4. s[1] \in Steps
  BY <1>3, ElementOfSeq
<1> QED
  BY <1>1, <1>2, <1>3, <1>4

LEMMA LeftAfter ==
    ASSUME NEW s \in Seq(Steps), s # <<>>, NEW n, LeftOf(s, n)
    PROVE  /\ LeftOf(Tail(s), n)
           /\ s[1][1] \notin New => Owned(Tail(s), n)
<1> DEFINE r == Tail(s)
<1>1. /\ Len(s) \in Nat /\ Len(r) = Len(s) - 1 /\ 1 \in 1 .. Len(s)
      /\ \A i \in 1 .. Len(r) : i + 1 \in 1 .. Len(s) /\ r[i] = s[i + 1]
  BY Shorter
<1> HIDE DEF r
<1>2. ASSUME NEW i \in 1 .. Len(r), Numbered(r[i])
      PROVE  /\ NumberIn(r[i]) = n
             /\ \A j \in 1 .. Len(r) : r[j][1] = r[i][1] => j = i
             /\ r[i][1] = "launch" /\ i > 1 => r[i - 1][1] \in New
             /\ r[i][1] = "launch" /\ i = 1 => s[1][1] \in New
  <2>1. i + 1 \in 1 .. Len(s) /\ r[i] = s[i + 1] /\ Numbered(s[i + 1]) /\ i \in Nat /\ i >= 1
    BY <1>1, <1>2
  <2>2. NumberIn(r[i]) = n
    BY <2>1 DEF LeftOf
  <2>3. ASSUME NEW j \in 1 .. Len(r), r[j][1] = r[i][1]
        PROVE  j = i
    <3>1. j + 1 \in 1 .. Len(s) /\ s[j + 1][1] = s[i + 1][1]
      BY <1>1, <2>1, <2>3
    <3>2. j + 1 = i + 1
      BY <2>1, <3>1 DEF LeftOf
    <3> QED
      BY <2>1, <3>2
  <2>4. r[i][1] = "launch" => s[i][1] \in New
    <3>1. i + 1 > 1 /\ (i + 1) - 1 = i
      BY <2>1
    <3> QED
      BY <2>1, <3>1 DEF LeftOf, New
  <2>5. ASSUME i > 1
        PROVE  r[i - 1] = s[i]
    <3>1. i - 1 \in 1 .. Len(r) /\ (i - 1) + 1 = i
      BY <1>1, <2>1, <2>5
    <3> QED
      BY <1>1, <3>1
  <2> QED
    BY <2>2, <2>3, <2>4, <2>5
<1>3. LeftOf(r, n)
  BY <1>2 DEF LeftOf, New
<1>4. ASSUME s[1][1] \notin New
      PROVE  Owned(r, n)
  <2>1. \A i \in 1 .. Len(r) : i = 1 \/ i > 1
    BY <1>1
  <2> QED
    BY <1>2, <1>4, <2>1 DEF Owned, New
<1> QED
  BY <1>3, <1>4 DEF r

LEMMA OwnedLeft == \A s, n : Owned(s, n) => LeftOf(s, n)
  BY DEF Owned, LeftOf

LEMMA SameSteps ==
    ASSUME serial' = serial
    PROVE  Steps' = Steps /\ PacketsOfLamps' = PacketsOfLamps
<1>1. PacketsOfLamps' = PacketsOfLamps
  BY DEF PacketsOfLamps
<1> QED
  BY <1>1 DEF Steps

\* Thread t has done its first step: what it has left names what it named
\* before, and the step it has done is not among it.
Goes(t) ==
    /\ todo' \in [Threads -> Seq(Steps)]
    /\ FramesApart'
    /\ \A u \in Threads : \A i \in 1 .. Len(todo'[u]) : todo'[u][i][1] = "move" =>
           \E j \in 1 .. Len(todo[u]) : todo'[u][i] = todo[u][j] /\ (u = t => j # 1)
    /\ \A u \in Threads : todo'[u] # <<>> /\ todo'[u][1][1] = "launch" =>
           IF u = t THEN todo[t][1][1] \in New /\ todo'[t][1][2] = NumberIn(todo[t][1])
                    ELSE todo'[u] = todo[u]

LEMMA ThenGoes ==
    ASSUME TypeOK, FramesApart, UNCHANGED <<serial, begun>>, NEW t \in Threads, todo[t] # <<>>,
           NEW steps \in Seq(Steps), Calm(steps), Then(t, steps),
           todo[t][1][1] \in New => steps = <<>>
    PROVE  Goes(t)
<1> DEFINE r == Rest(t)
           left == steps \o r
<1>1. /\ todo \in [Threads -> Seq(Steps)]
      /\ todo[t] \in Seq(Steps)
  BY DEF TypeOK, FrameTypes
<1>2. /\ r \in Seq(Steps) /\ Len(r) \in Nat
      /\ \A i \in 1 .. Len(r) : i + 1 \in 1 .. Len(todo[t]) /\ r[i] = todo[t][i + 1]
  BY <1>1, Shorter DEF Rest
<1>3. \A n : LeftOf(todo[t], n) => LeftOf(r, n) /\ (todo[t][1][1] \notin New => Owned(r, n))
  BY <1>1, LeftAfter DEF Rest
<1>4. /\ left \in Seq(Steps)
      /\ Len(steps) \in Nat /\ Len(left) = Len(steps) + Len(r)
      /\ \A i \in 1 .. Len(left) : left[i] = IF i <= Len(steps) THEN steps[i] ELSE r[i - Len(steps)]
  BY <1>2
<1>5. steps = <<>> => left = r
  BY <1>2
<1>6. todo' = [todo EXCEPT ![t] = left]
  BY DEF Then
<1>7. \A n : Owned(r, n) => Owned(left, n)
  BY <1>2, CalmSteps
<1>8. \A n : LeftOf(todo[t], n) => LeftOf(left, n) /\ (todo[t][1][1] \notin New => Owned(left, n))
  BY <1>3, <1>5, <1>7, OwnedLeft
<1> HIDE DEF r, left
<1>9. todo' \in [Threads -> Seq(Steps)] /\ todo'[t] = left /\ \A u \in Threads \ {t} : todo'[u] = todo[u]
  BY <1>1, <1>4, <1>6
<1>10. FramesApart'
  <2>1. PICK of \in [Threads -> 0 .. begun] :
            /\ \A u \in Threads : LeftOf(todo[u], of[u])
            /\ \A u, v \in Threads : u # v /\ of[u] = of[v] => of[u] = 0
    BY DEF FramesApart
  <2>2. \A u \in Threads : LeftOf(todo'[u], of[u])
    BY <1>8, <1>9, <2>1
  <2> QED
    BY <2>1, <2>2 DEF FramesApart
<1>11. ASSUME NEW u \in Threads, NEW i \in 1 .. Len(todo'[u]), todo'[u][i][1] = "move"
       PROVE  \E j \in 1 .. Len(todo[u]) : todo'[u][i] = todo[u][j] /\ (u = t => j # 1)
  <2>1. CASE u # t
    BY <1>9, <1>11, <2>1
  <2>2. CASE u = t
    <3>1. i \in 1 .. Len(left) /\ left[i][1] = "move"
      BY <1>9, <1>11, <2>2
    <3>2. ~(i <= Len(steps))
      <4>1. SUFFICES ASSUME i <= Len(steps) PROVE FALSE
        OBVIOUS
      <4>2. i \in 1 .. Len(steps) /\ steps[i][1] = "move"
        BY <1>4, <3>1, <4>1
      <4> QED
        BY <4>2 DEF Calm, Numbered
    <3> DEFINE k == i - Len(steps)
    <3>3. k \in 1 .. Len(r) /\ left[i] = r[k] /\ k >= 1
      BY <1>2, <1>4, <3>1, <3>2
    <3> HIDE DEF k
    <3>4. k + 1 \in 1 .. Len(todo[t]) /\ r[k] = todo[t][k + 1] /\ k + 1 # 1
      BY <1>2, <3>3
    <3> QED
      BY <1>9, <2>2, <3>3, <3>4
  <2> QED
    BY <2>1, <2>2
<1>12. ASSUME NEW u \in Threads, todo'[u] # <<>>, todo'[u][1][1] = "launch"
       PROVE  IF u = t THEN todo[t][1][1] \in New /\ todo'[t][1][2] = NumberIn(todo[t][1])
                       ELSE todo'[u] = todo[u]
  <2>1. CASE u # t
    BY <1>9, <2>1
  <2>2. CASE u = t
    <3>1. left # <<>> /\ left[1][1] = "launch"
      BY <1>9, <1>12, <2>2
    <3>2. 1 \in 1 .. Len(left) /\ Numbered(left[1])
      BY <1>4, <3>1, Shorter DEF Numbered
    <3>3. PICK n : LeftOf(todo[t], n)
      BY DEF FramesApart
    <3>4. todo[t][1][1] \in New
      <4>1. SUFFICES ASSUME todo[t][1][1] \notin New PROVE FALSE
        OBVIOUS
      <4>2. Owned(left, n)
        BY <1>8, <3>3, <4>1
      <4>3. 1 > 1
        BY <3>1, <3>2, <4>2 DEF Owned
      <4> QED
        BY <4>3
    <3>5. LeftOf(left, n) /\ NumberIn(left[1]) = left[1][2]
      BY <1>8, <3>1, <3>3 DEF NumberIn
    <3>6. NumberIn(left[1]) = n
      BY <3>2, <3>5 DEF LeftOf
    <3>7. 1 \in 1 .. Len(todo[t]) /\ Numbered(todo[t][1])
      BY <1>1, <3>4, Shorter DEF Numbered, New
    <3>8. NumberIn(todo[t][1]) = n
      BY <3>3, <3>7 DEF LeftOf
    <3> QED
      BY <1>9, <2>2, <3>4, <3>5, <3>6, <3>8
  <2> QED
    BY <2>1, <2>2
<1> QED
  BY <1>9, <1>10, <1>11, <1>12 DEF Goes

LEMMA RaiseGoes ==
    ASSUME TypeOK, FramesApart, UNCHANGED <<serial, begun>>, NEW t \in Threads, Raise(t)
    PROVE  Goes(t)
<1>1. /\ todo' \in [Threads -> Seq(Steps)] /\ todo'[t] = <<>>
      /\ \A u \in Threads \ {t} : todo'[u] = todo[u]
  <2>1. <<>> \in Seq(Steps) /\ todo \in [Threads -> Seq(Steps)]
    BY DEF TypeOK, FrameTypes
  <2> QED
    BY <2>1 DEF Raise
<1>2. FramesApart'
  <2>1. PICK of \in [Threads -> 0 .. begun] :
            /\ \A u \in Threads : LeftOf(todo[u], of[u])
            /\ \A u, v \in Threads : u # v /\ of[u] = of[v] => of[u] = 0
    BY DEF FramesApart
  <2>2. \A n : LeftOf(<<>>, n)
    BY DEF LeftOf
  <2>3. \A u \in Threads : LeftOf(todo'[u], of[u])
    BY <1>1, <2>1, <2>2
  <2> QED
    BY <2>1, <2>3 DEF FramesApart
<1>3. ASSUME NEW u \in Threads, NEW i \in 1 .. Len(todo'[u]) PROVE u # t
  BY <1>1, <1>3
<1> QED
  BY <1>1, <1>2, <1>3 DEF Goes

\* Two steps that name the same frame are of one thread, and if they do the
\* same they are one.
LEMMA Apart ==
    ASSUME TypeOK, FramesApart, NEW t \in Threads, NEW u \in Threads,
           NEW i \in 1 .. Len(todo[t]), NEW j \in 1 .. Len(todo[u]),
           Numbered(todo[t][i]), Numbered(todo[u][j])
    PROVE  /\ NumberIn(todo[t][i]) \in 1 .. begun
           /\ NumberIn(todo[t][i]) = NumberIn(todo[u][j]) =>
                  t = u /\ (todo[t][i][1] = todo[u][j][1] => i = j)
<1>1. PICK of \in [Threads -> 0 .. begun] :
          /\ \A v \in Threads : LeftOf(todo[v], of[v])
          /\ \A v, w \in Threads : v # w /\ of[v] = of[w] => of[v] = 0
  BY DEF FramesApart
<1>2. NumberIn(todo[t][i]) = of[t] /\ NumberIn(todo[u][j]) = of[u]
  BY <1>1 DEF LeftOf
<1>3. todo[t][i] \in Steps /\ todo[t][i][1] \in {"move", "launch", "track", "newShow", "newEffect"}
  BY ElementOfSeq DEF TypeOK, FrameTypes, Numbered
<1>4. NumberIn(todo[t][i]) \in Ids
  BY <1>3 DEF Steps, NumberIn
<1>5. NumberIn(todo[t][i]) # 0 /\ of[t] \in 0 .. begun /\ begun \in Nat
  BY <1>4, TcpAssumption DEF Ids, TypeOK, FrameTypes
<1>6. NumberIn(todo[t][i]) = NumberIn(todo[u][j]) => t = u
  BY <1>1, <1>2, <1>5
<1>7. t = u /\ todo[t][i][1] = todo[u][j][1] => i = j
  BY <1>1 DEF LeftOf
<1> QED
  BY <1>2, <1>5, <1>6, <1>7

LEMMA Enters ==
    ASSUME IInv, UNCHANGED <<serial, worker, moves>>, NEW t \in Threads,
           todo[t] = <<>>, NEW steps, Handler(steps, Number), Enter(t, steps)
    PROVE  /\ todo' \in [Threads -> Seq(Steps)] /\ begun' \in 0 .. MaxFrames
           /\ FramesApart' /\ MotionsSound' /\ StopIsHeard' /\ WorkersSound'
<1>1. /\ begun \in Nat /\ MaxFrames \in Nat /\ begun' = begun + 1 /\ begun' \in 0 .. MaxFrames
      /\ Number \in 1 .. begun' /\ Number > begun /\ Number \in Ids
      /\ UNCHANGED <<slot, motion, stopper, owed, displaced>>
  BY TcpAssumption DEF IInv, TypeOK, FrameTypes, Enter, Number, Ids, moves
<1>2. /\ todo \in [Threads -> Seq(Steps)] /\ steps \in Seq(Steps) /\ Owned(steps, Number)
      /\ todo' = [todo EXCEPT ![t] = steps]
  BY DEF IInv, TypeOK, FrameTypes, Enter, Handler
<1>3. todo' \in [Threads -> Seq(Steps)] /\ todo'[t] = steps /\ \A u \in Threads \ {t} : todo'[u] = todo[u]
  BY <1>2
<1>4. FramesApart'
  <2>1. PICK of \in [Threads -> 0 .. begun] :
            /\ \A u \in Threads : LeftOf(todo[u], of[u])
            /\ \A u, v \in Threads : u # v /\ of[u] = of[v] => of[u] = 0
    BY DEF IInv, FramesApart
  <2> DEFINE next == [of EXCEPT ![t] = Number]
  <2>2. /\ next \in [Threads -> 0 .. begun'] /\ next[t] = Number
        /\ \A u \in Threads \ {t} : next[u] = of[u] /\ of[u] <= begun /\ of[u] \in Nat
    BY <1>1
  <2> HIDE DEF next
  <2>3. \A u \in Threads : LeftOf(todo'[u], next[u])
    BY <1>2, <1>3, <2>1, <2>2, OwnedLeft
  <2>4. \A u \in Threads \ {t} : next[u] # next[t]
    BY <1>1, <2>2
  <2>5. \A u, v \in Threads : u # v /\ next[u] = next[v] => next[u] = 0
    BY <2>1, <2>2, <2>4
  <2> QED
    BY <2>2, <2>3, <2>5 DEF FramesApart
<1>5. ASSUME NEW u \in Threads, NEW i \in 1 .. Len(todo'[u]), todo'[u][i][1] = "move"
      PROVE  motion[todo'[u][i][2]] = "none"
  <2>1. CASE u # t
    BY <1>3, <1>5, <2>1 DEF IInv, MotionsSound
  <2>2. CASE u = t
    <3>1. i \in 1 .. Len(steps) /\ steps[i][1] = "move" /\ Numbered(steps[i])
      BY <1>3, <1>5, <2>2 DEF Numbered
    <3>2. steps[i][2] = Number
      BY <1>2, <3>1 DEF Owned, NumberIn
    <3>3. motion[Number] = "none"
      BY <1>1 DEF IInv, MotionsSound
    <3> QED
      BY <1>3, <2>2, <3>2, <3>3
  <2> QED
    BY <2>1, <2>2
<1>6. MotionsSound'
  <2>1. \A m \in Ids : motion'[m] # "none" => m <= begun'
    <3>1. ASSUME NEW m \in Ids, motion[m] # "none" PROVE m <= begun'
      <4>1. m <= begun /\ m \in Nat
        BY <3>1 DEF IInv, MotionsSound, Ids
      <4> QED
        BY <1>1, <4>1
    <3> QED
      BY <1>1, <3>1
  <2> QED
    BY <1>1, <1>5, <2>1 DEF IInv, MotionsSound
<1>7. StopIsHeard'
  BY <1>1 DEF IInv, StopIsHeard
<1>8. WorkersSound'
  <2>1. ASSUME NEW u \in Threads, todo'[u] # <<>>, todo'[u][1][1] = "launch"
        PROVE  worker[todo'[u][1][2]].st = "new"
    <3>1. u # t
      <4>1. SUFFICES ASSUME u = t PROVE FALSE
        OBVIOUS
      <4>2. steps # <<>> /\ steps[1][1] = "launch"
        BY <1>3, <2>1, <4>1
      <4>3. 1 \in 1 .. Len(steps) /\ Numbered(steps[1])
        BY <1>2, <4>2, Shorter DEF Numbered
      <4>4. 1 > 1
        BY <1>2, <4>2, <4>3 DEF Owned
      <4> QED
        BY <4>4
    <3> QED
      BY <1>3, <2>1, <3>1 DEF IInv, WorkersSound
  <2> QED
    BY <2>1 DEF IInv, WorkersSound
<1> QED
  BY <1>1, <1>3, <1>4, <1>6, <1>7, <1>8

----------------------------------------------------------------------------
\* What a step leaves as it is.
LEMMA FrameKept ==
    ASSUME IInv, NEW t \in Threads, Goes(t), UNCHANGED frame
    PROVE  FrameTypes' /\ FramesApart'
<1>1. todo' \in [Threads -> Seq(Steps)] /\ Steps' = Steps
  BY SameSteps DEF Goes, frame
<1> QED
  BY <1>1 DEF IInv, TypeOK, FrameTypes, Goes, frame

LEMMA LightsKept ==
    ASSUME IInv, UNCHANGED <<serial, lights, want, mixed>>, late' \in BOOLEAN
    PROVE  LightTypes'
  BY SameSteps DEF IInv, TypeOK, LightTypes, lights

LEMMA WorkersKept ==
    ASSUME IInv, NEW t \in Threads, Goes(t), worker' = worker, todo[t][1][1] \notin New
    PROVE  WorkersSound'
<1>1. ASSUME NEW u \in Threads, todo'[u] # <<>>, todo'[u][1][1] = "launch"
      PROVE  worker[todo'[u][1][2]].st = "new"
  <2>1. todo'[u] = todo[u]
    BY <1>1 DEF Goes
  <2> QED
    BY <1>1, <2>1 DEF IInv, WorkersSound
<1> QED
  BY <1>1 DEF IInv, WorkersSound

LEMMA MovesKept ==
    ASSUME IInv, NEW t \in Threads, Goes(t), UNCHANGED <<moves, begun>>
    PROVE  MotionsSound' /\ StopIsHeard'
<1>1. ASSUME NEW u \in Threads, NEW i \in 1 .. Len(todo'[u]), todo'[u][i][1] = "move"
      PROVE  motion[todo'[u][i][2]] = "none"
  <2>1. PICK j \in 1 .. Len(todo[u]) : todo'[u][i] = todo[u][j]
    BY <1>1 DEF Goes
  <2> QED
    BY <1>1, <2>1 DEF IInv, MotionsSound
<1> QED
  BY <1>1 DEF IInv, MotionsSound, StopIsHeard, moves

LEMMA OthersKept ==
    ASSUME IInv, UNCHANGED <<moves, trackers, monitor>>
    PROVE  OtherTypes' /\ MonitorSound'
<1>1. OtherTypes'
  BY DEF IInv, TypeOK, OtherTypes, moves, monitor, past
<1>2. MonitorSound'
  BY DEF IInv, MonitorSound, monitor, past
<1> QED
  BY <1>1, <1>2

\* A step that does nothing but go on.
LEMMA OnlyGoes ==
    ASSUME IInv, NEW t \in Threads, Goes(t), todo[t][1][1] \notin New,
           UNCHANGED <<frame, lights, moves, trackers, monitor, want, mixed>>, late' \in BOOLEAN
    PROVE  IInv'
<1>1. FrameTypes' /\ FramesApart'
  BY FrameKept
<1>2. LightTypes' /\ WorkersSound'
  BY LightsKept, WorkersKept DEF frame, lights
<1>3. MotionsSound' /\ StopIsHeard'
  BY MovesKept DEF frame
<1>4. OtherTypes' /\ MonitorSound'
  BY OthersKept
<1> QED
  BY <1>1, <1>2, <1>3, <1>4 DEF IInv, TypeOK

----------------------------------------------------------------------------
\* The steps, one by one.
LEMMA Arguments ==
    ASSUME NEW s \in Steps
    PROVE  /\ s[1] = "ifShow" => s[2] \in BOOLEAN
           /\ s[1] = "join" => s[2] \in 0 .. MaxFrames
           /\ s[1] = "light" => s[2] \in PacketsOfLamps
           /\ s[1] = "newShow" => s[2] \in Ids \X {0}
           /\ s[1] = "newEffect" => s[2] \in Ids \X DOMAIN Patterns
           /\ s[1] \in {"launch", "move", "track"} => s[2] \in Ids
           /\ s[1] = "close" => s[2] \in Parts
<1>1. /\ s[1] = "ifShow" => s[2] \in BOOLEAN
      /\ s[1] = "join" => s[2] \in 0 .. MaxFrames
      /\ s[1] = "light" => s[2] \in PacketsOfLamps
  BY DEF Steps
<1>2. /\ s[1] = "newShow" => s[2] \in Ids \X {0}
      /\ s[1] = "newEffect" => s[2] \in Ids \X DOMAIN Patterns
  BY DEF Steps
<1>3. /\ s[1] \in {"launch", "move", "track"} => s[2] \in Ids
      /\ s[1] = "close" => s[2] \in Parts
  BY DEF Steps
<1> QED
  BY <1>1, <1>2, <1>3

LEMMA FirstStep ==
    ASSUME TypeOK, NEW t \in Threads, todo[t] # <<>>
    PROVE  todo[t][1] \in Steps /\ 1 \in 1 .. Len(todo[t])
  BY Shorter DEF TypeOK, FrameTypes

LEMMA GoesOn ==
    ASSUME IInv, UNCHANGED <<serial, begun>>, NEW t \in Threads, todo[t] # <<>>
    PROVE  /\ Then(t, <<>>) => Goes(t)
           /\ Raise(t) => Goes(t)
<1>1. <<>> \in Seq(Steps) /\ Calm(<<>>)
  BY DEF Calm
<1>2. Then(t, <<>>) => Goes(t)
  BY <1>1, ThenGoes DEF IInv
<1>3. Raise(t) => Goes(t)
  BY RaiseGoes DEF IInv
<1> QED
  BY <1>2, <1>3

LEMMA CheckShowStep ==
    ASSUME IInv, NEW t \in Threads, CheckShow(t)
    PROVE  IInv'
<1>1. /\ todo[t] # <<>> /\ todo[t][1][1] = "ifShow" /\ Arg(t) \in BOOLEAN
      /\ UNCHANGED <<serial, begun>> /\ serial \in BOOLEAN
  BY FirstStep, Arguments DEF CheckShow, At, Arg, frame, IInv, TypeOK, FrameTypes
<1> DEFINE steps == IF Running(show) THEN StopShow(Arg(t)) ELSE <<>>
<1>2. steps \in Seq(Steps) /\ Calm(steps)
  <2>1. <<>> \in Seq(Steps) /\ Calm(<<>>)
    BY DEF Calm
  <2> QED
    BY <1>1, <2>1, PartSteps
<1>3. Then(t, steps)
  BY DEF CheckShow
<1> HIDE DEF steps
<1>4. todo[t][1][1] \notin New
  BY <1>1 DEF New
<1>5. Goes(t)
  BY <1>1, <1>2, <1>3, <1>4, ThenGoes DEF IInv
<1>6. /\ UNCHANGED <<frame, lights, moves, trackers, monitor, want, mixed>> /\ late' = late
      /\ late \in BOOLEAN
  BY DEF CheckShow, noises, story, IInv, TypeOK, LightTypes
<1> QED
  BY <1>4, <1>5, <1>6, OnlyGoes

LEMMA JoinStep ==
    ASSUME IInv, NEW t \in Threads, Join(t)
    PROVE  IInv'
<1>1. /\ todo[t] # <<>> /\ todo[t][1][1] = "join" /\ UNCHANGED <<serial, begun>>
      /\ UNCHANGED <<frame, lights, moves, noises, monitor, want, mixed>>
  BY DEF Join, At, frame, story
<1>2. late' \in BOOLEAN
  BY DEF Join, story, IInv, TypeOK, LightTypes
<1>3. Goes(t)
  <2>1. Then(t, <<>>) \/ Raise(t)
    BY DEF Join
  <2> QED
    BY <1>1, <2>1, GoesOn
<1>4. todo[t][1][1] \notin New
  BY <1>1 DEF New
<1> QED
  BY <1>1, <1>2, <1>3, <1>4, OnlyGoes DEF noises

LEMMA PlayRefuseStep ==
    ASSUME IInv, NEW t \in Threads, Play(t) \/ Refuse(t)
    PROVE  IInv'
<1>1. /\ todo[t] # <<>> /\ todo[t][1][1] \notin New /\ UNCHANGED <<serial, begun>>
      /\ UNCHANGED <<frame, lights, moves, trackers, monitor, want, mixed>> /\ late' = late
  BY DEF Play, Refuse, At, frame, story, noises, New
<1>2. late \in BOOLEAN
  BY DEF IInv, TypeOK, LightTypes
<1>3. Goes(t)
  <2>1. Then(t, <<>>) \/ Raise(t)
    BY DEF Play, Refuse
  <2> QED
    BY <1>1, <2>1, GoesOn
<1> QED
  BY <1>1, <1>2, <1>3, OnlyGoes

LEMMA TrackerStep ==
    ASSUME IInv, NEW t \in Threads, KillTrackers(t) \/ StartTracker(t)
    PROVE  IInv'
<1>1. /\ todo[t] # <<>> /\ todo[t][1][1] \notin New
      /\ UNCHANGED <<frame, lights, moves, monitor, story>>
  BY DEF KillTrackers, StartTracker, At, New
<1>2. Goes(t)
  <2>1. Then(t, <<>>) \/ Raise(t)
    BY DEF KillTrackers, StartTracker
  <2> QED
    BY <1>1, <2>1, GoesOn DEF frame
<1>3. trackers' \subseteq Ids
  <2>1. todo[t][1][1] = "track" => Arg(t) \in Ids
    BY <1>1, FirstStep, Arguments DEF Arg, IInv
  <2> QED
    BY <2>1 DEF KillTrackers, StartTracker, At, IInv, TypeOK, OtherTypes
<1>4. FrameTypes' /\ FramesApart'
  BY <1>1, <1>2, FrameKept
<1>5. LightTypes' /\ WorkersSound'
  <2>1. late' \in BOOLEAN /\ UNCHANGED <<serial, want, mixed, worker>>
    BY <1>1 DEF story, lights, frame, IInv, TypeOK, LightTypes
  <2> QED
    BY <1>1, <1>2, <2>1, LightsKept, WorkersKept
<1>6. MotionsSound' /\ StopIsHeard'
  BY <1>1, <1>2, MovesKept DEF frame
<1>7. OtherTypes' /\ MonitorSound'
  BY <1>1, <1>3 DEF IInv, TypeOK, OtherTypes, MonitorSound, moves, monitor, past
<1> QED
  BY <1>4, <1>5, <1>6, <1>7 DEF IInv, TypeOK

LEMMA CloseStepStep ==
    ASSUME IInv, CloseStep
    PROVE  IInv'
<1>1. /\ "main" \in Threads /\ todo["main"] # <<>> /\ todo["main"][1][1] \notin New
      /\ Then("main", <<>>)
      /\ UNCHANGED <<serial, budget, begun, lights, moves, trackers, monitor, story>>
  BY DEF CloseStep, At, New, Threads
<1>2. Goes("main")
  BY <1>1, GoesOn
<1>3. closed' \subseteq Parts
  <2>1. todo["main"][1][1] = "close" => Arg("main") \in Parts
    BY <1>1, FirstStep, Arguments DEF Arg, IInv
  <2> QED
    BY <2>1 DEF CloseStep, At, IInv, TypeOK, FrameTypes
<1>4. FrameTypes' /\ FramesApart'
  <2>1. todo' \in [Threads -> Seq(Steps)] /\ Steps' = Steps
    BY <1>1, <1>2, SameSteps DEF Goes
  <2> QED
    BY <1>1, <1>2, <1>3, <2>1 DEF IInv, TypeOK, FrameTypes, Goes
<1>5. LightTypes' /\ WorkersSound'
  <2>1. late' \in BOOLEAN /\ UNCHANGED <<serial, want, mixed, worker>>
    BY <1>1 DEF story, lights, IInv, TypeOK, LightTypes
  <2> QED
    BY <1>1, <1>2, <2>1, LightsKept, WorkersKept
<1>6. MotionsSound' /\ StopIsHeard'
  BY <1>1, <1>2, MovesKept
<1>7. OtherTypes' /\ MonitorSound'
  BY <1>1, OthersKept
<1> QED
  BY <1>4, <1>5, <1>6, <1>7 DEF IInv, TypeOK

LEMMA LitLamps ==
    ASSUME serial \in BOOLEAN, IF serial THEN lamp \subseteq Sides ELSE lamp \in 0 .. 6,
           NEW p \in PacketsOfLamps
    PROVE  IF serial THEN Lit(p) \subseteq Sides ELSE Lit(p) \in 0 .. 6
<1>1. CASE ~serial
  <2>1. p[1] = "publish" /\ p[2] \in 0 .. 6
    BY <1>1 DEF PacketsOfLamps
  <2>2. Lit(p) = p[2]
    BY <2>1 DEF Lit
  <2> QED
    BY <1>1, <2>1, <2>2
<1>2. CASE serial
  <2>1. p \in ({"both"} \X {0, 1}) \/ p \in (Sides \X {1})
    BY <1>2 DEF PacketsOfLamps
  <2>2. CASE p \in {"both"} \X {0, 1}
    <3>1. p = <<"both", 0>> \/ p = <<"both", 1>>
      BY <2>2
    <3>2. CASE p = <<"both", 0>>
      <4>1. Lit(p) = {}
        BY <3>2 DEF Lit
      <4> QED
        BY <1>2, <4>1
    <3>3. CASE p = <<"both", 1>>
      <4>1. Lit(p) = Sides
        BY <3>3 DEF Lit
      <4> QED
        BY <1>2, <4>1
    <3> QED
      BY <3>1, <3>2, <3>3
  <2>3. CASE p \in Sides \X {1}
    <3>1. p[1] \in Sides /\ p[1] # "publish" /\ p # <<"both", 0>> /\ p # <<"both", 1>>
      BY <2>3 DEF Sides
    <3>2. Lit(p) = lamp \cup {p[1]}
      BY <3>1 DEF Lit
    <3> QED
      BY <1>2, <3>1, <3>2
  <2> QED
    BY <2>1, <2>2, <2>3
<1> QED
  BY <1>1, <1>2

LEMMA LightStep ==
    ASSUME IInv, NEW t \in Threads, Light(t)
    PROVE  IInv'
<1>1. /\ todo[t] # <<>> /\ todo[t][1][1] = "light"
      /\ UNCHANGED <<frame, show, effect, worker, moves, noises, monitor, story>>
  BY DEF Light, At
<1>2. todo[t][1][1] \notin New
  BY <1>1 DEF New
<1>3. Goes(t)
  <2>1. Then(t, <<>>) \/ Raise(t)
    BY DEF Light
  <2> QED
    BY <1>1, <2>1, GoesOn DEF frame
<1>4. FrameTypes' /\ FramesApart'
  BY <1>1, <1>3, FrameKept
<1>5. IF serial THEN lamp' \subseteq Sides ELSE lamp' \in 0 .. 6
  <2>1. Arg(t) \in PacketsOfLamps
    BY <1>1, FirstStep, Arguments DEF Arg, IInv
  <2>2. IF serial THEN Lit(Arg(t)) \subseteq Sides ELSE Lit(Arg(t)) \in 0 .. 6
    BY <2>1, LitLamps DEF IInv, TypeOK, FrameTypes, LightTypes
  <2> QED
    BY <2>2 DEF Light, IInv, TypeOK, LightTypes
<1>6. LightTypes'
  BY <1>1, <1>5, SameSteps DEF frame, story, IInv, TypeOK, LightTypes
<1>7. WorkersSound'
  BY <1>1, <1>2, <1>3, WorkersKept
<1>8. MotionsSound' /\ StopIsHeard'
  BY <1>1, <1>3, MovesKept DEF frame
<1>9. OtherTypes' /\ MonitorSound'
  BY <1>1, OthersKept DEF noises
<1> QED
  BY <1>4, <1>6, <1>7, <1>8, <1>9 DEF IInv, TypeOK

\* A worker that is told to stop is still what it was.
LEMMA ToldWorkers ==
    ASSUME IInv, NEW w \in 0 .. MaxFrames
    PROVE  /\ Told(w) \in [Ids -> [scenes : Seq(0 .. 3), show : BOOLEAN, st : States, at : Nat,
                                   out : Seq(PacketsOfLamps), told : BOOLEAN]]
           /\ \A v \in Ids : /\ Told(w)[v].st = worker[v].st
                             /\ Told(w)[v].scenes = worker[v].scenes
                             /\ Told(w)[v].show = worker[v].show
                             /\ Told(w)[v].at = worker[v].at
                             /\ Told(w)[v].out = worker[v].out
<1>1. worker \in [Ids -> [scenes : Seq(0 .. 3), show : BOOLEAN, st : States, at : Nat,
                          out : Seq(PacketsOfLamps), told : BOOLEAN]]
  BY DEF IInv, TypeOK, LightTypes
<1>2. CASE w = None
  BY <1>1, <1>2 DEF Told
<1>3. CASE w # None
  <2>1. Told(w) = [worker EXCEPT ![w] = [worker[w] EXCEPT !.told = TRUE]]
    BY <1>3 DEF Told
  <2>2. w \in Ids /\ worker[w] \in [scenes : Seq(0 .. 3), show : BOOLEAN, st : States, at : Nat,
                                    out : Seq(PacketsOfLamps), told : BOOLEAN]
    BY <1>1, <1>3 DEF Ids, None
  <2> DEFINE told == [worker[w] EXCEPT !.told = TRUE]
  <2>3. /\ told \in [scenes : Seq(0 .. 3), show : BOOLEAN, st : States, at : Nat,
                     out : Seq(PacketsOfLamps), told : BOOLEAN]
        /\ told.st = worker[w].st /\ told.scenes = worker[w].scenes /\ told.show = worker[w].show
        /\ told.at = worker[w].at /\ told.out = worker[w].out
    BY <2>2
  <2>4. Told(w) = [worker EXCEPT ![w] = told]
    BY <2>1
  <2> HIDE DEF told
  <2>5. \A v \in Ids : Told(w)[v] = IF v = w THEN told ELSE worker[v]
    BY <1>1, <2>4
  <2>6. Told(w) \in [Ids -> [scenes : Seq(0 .. 3), show : BOOLEAN, st : States, at : Nat,
                             out : Seq(PacketsOfLamps), told : BOOLEAN]]
    BY <1>1, <2>3, <2>4
  <2> QED
    BY <2>3, <2>5, <2>6
<1> QED
  BY <1>2, <1>3

LEMMA TakeStep ==
    ASSUME IInv, NEW t \in Threads, TakeShow(t) \/ TakeEffect(t)
    PROVE  IInv'
<1>1. /\ todo[t] # <<>> /\ todo[t][1][1] \in {"takeShow", "takeEffect"}
      /\ UNCHANGED <<frame, lamp, moves, noises, monitor, story>>
  BY DEF TakeShow, TakeEffect, At
<1>2. PICK w \in 0 .. MaxFrames : worker' = Told(w) /\ Then(t, <<<<"join", w>>>>)
  BY DEF TakeShow, TakeEffect, IInv, TypeOK, LightTypes
<1>3. show' \in 0 .. MaxFrames /\ effect' \in 0 .. MaxFrames
  <2>1. 0 \in 0 .. MaxFrames
    BY TcpAssumption
  <2> QED
    BY <2>1 DEF TakeShow, TakeEffect, None, IInv, TypeOK, LightTypes
<1>4. todo[t][1][1] \notin New
  BY <1>1 DEF New
<1>5. Goes(t)
  <2>1. <<"join", w>> \in Steps /\ ~Numbered(<<"join", w>>)
    BY DEF Steps, Numbered
  <2>2. <<<<"join", w>>>> \in Seq(Steps) /\ Calm(<<<<"join", w>>>>)
    BY <2>1, SingleStep
  <2> QED
    BY <1>1, <1>2, <1>4, <2>2, ThenGoes DEF IInv, frame
<1>6. FrameTypes' /\ FramesApart'
  BY <1>1, <1>5, FrameKept
<1>7. LightTypes'
  <2>1. PacketsOfLamps' = PacketsOfLamps /\ serial' = serial
    BY <1>1, SameSteps DEF frame
  <2>2. worker' \in [Ids -> [scenes : Seq(0 .. 3), show : BOOLEAN, st : States, at : Nat,
                             out : Seq(PacketsOfLamps), told : BOOLEAN]]
    BY <1>2, ToldWorkers
  <2>3. \A v \in Ids : /\ worker'[v].at <= Len(worker'[v].scenes)
                       /\ worker'[v].out # <<>> <=> worker'[v].st \in {"write", "dark"}
    BY <1>2, ToldWorkers DEF IInv, TypeOK, LightTypes
  <2> QED
    BY <1>1, <1>3, <2>1, <2>2, <2>3 DEF story, IInv, TypeOK, LightTypes
<1>8. WorkersSound'
  <2>1. ASSUME NEW u \in Threads, todo'[u] # <<>>, todo'[u][1][1] = "launch"
        PROVE  worker'[todo'[u][1][2]].st = "new"
    <3>1. todo'[u] = todo[u]
      BY <1>4, <1>5, <2>1 DEF Goes
    <3>2. worker[todo[u][1][2]].st = "new" /\ todo[u][1][2] \in Ids
      BY <2>1, <3>1, FirstStep, Arguments DEF IInv, WorkersSound
    <3> QED
      BY <1>2, <3>1, <3>2, ToldWorkers
  <2>2. \A v \in Ids : worker'[v].st \notin {"none", "done"} /\ ~worker'[v].show
                           => worker'[v].scenes # <<>>
    BY <1>2, ToldWorkers DEF IInv, WorkersSound
  <2> QED
    BY <2>1, <2>2 DEF WorkersSound
<1>9. MotionsSound' /\ StopIsHeard'
  BY <1>1, <1>5, MovesKept DEF frame
<1>10. OtherTypes' /\ MonitorSound'
  BY <1>1, OthersKept DEF noises
<1> QED
  BY <1>6, <1>7, <1>8, <1>9, <1>10 DEF IInv, TypeOK

\* One worker changes: what the others are stays, and so does what waits to be
\* launched, unless it is the worker that changes.
LEMMA OneWorker ==
    ASSUME IInv, NEW w \in Ids, serial' = serial,
           NEW one \in [scenes : Seq(0 .. 3), show : BOOLEAN, st : States, at : Nat,
                        out : Seq(PacketsOfLamps), told : BOOLEAN],
           one.at <= Len(one.scenes), one.out # <<>> <=> one.st \in {"write", "dark"},
           worker' = [worker EXCEPT ![w] = one],
           show' \in 0 .. MaxFrames, effect' \in 0 .. MaxFrames,
           IF serial THEN lamp' \subseteq Sides ELSE lamp' \in 0 .. 6, UNCHANGED story
    PROVE  /\ LightTypes'
           /\ \A v \in Ids : worker'[v] = IF v = w THEN one ELSE worker[v]
<1>1. /\ worker \in [Ids -> [scenes : Seq(0 .. 3), show : BOOLEAN, st : States, at : Nat,
                             out : Seq(PacketsOfLamps), told : BOOLEAN]]
      /\ PacketsOfLamps' = PacketsOfLamps
  BY SameSteps DEF IInv, TypeOK, LightTypes
<1>2. /\ worker' \in [Ids -> [scenes : Seq(0 .. 3), show : BOOLEAN, st : States, at : Nat,
                             out : Seq(PacketsOfLamps), told : BOOLEAN]]
      /\ \A v \in Ids : worker'[v] = IF v = w THEN one ELSE worker[v]
  BY <1>1
<1>3. \A v \in Ids : /\ worker'[v].at <= Len(worker'[v].scenes)
                     /\ worker'[v].out # <<>> <=> worker'[v].st \in {"write", "dark"}
  BY <1>2 DEF IInv, TypeOK, LightTypes
<1> QED
  BY <1>1, <1>2, <1>3 DEF story, IInv, TypeOK, LightTypes

LEMMA EffectPatterns ==
    ASSUME NEW e \in DOMAIN Patterns
    PROVE  Patterns[e] \in Seq(0 .. 3) /\ Patterns[e] # <<>>
<1>1. e \in {1, 2, 3, 4, 5}
  BY DEF Patterns
<1>2. CASE e = 1
  BY <1>2 DEF Patterns
<1>3. CASE e = 2
  BY <1>3 DEF Patterns
<1>4. CASE e = 3
  BY <1>4 DEF Patterns
<1>5. CASE e = 4
  BY <1>5 DEF Patterns
<1>6. CASE e = 5
  BY <1>6 DEF Patterns
<1> QED
  BY <1>1, <1>2, <1>3, <1>4, <1>5, <1>6

LEMMA RegisterStep ==
    ASSUME IInv, NEW t \in Threads, Register(t)
    PROVE  IInv'
<1> DEFINE w == Arg(t)[1]
           isShow == At(t, "newShow")
           scenes == IF isShow THEN ShowSteps ELSE Patterns[Arg(t)[2]]
           one == [scenes |-> scenes, show |-> isShow, st |-> "new", at |-> 0, out |-> <<>>,
                   told |-> FALSE]
<1>1. /\ todo[t] # <<>> /\ todo[t][1][1] = IF isShow THEN "newShow" ELSE "newEffect"
      /\ UNCHANGED <<frame, lamp, moves, noises, monitor, story>>
      /\ show' = IF isShow THEN w ELSE show
      /\ effect' = IF isShow THEN effect ELSE w
      /\ worker' = [worker EXCEPT ![w] = one]
      /\ Then(t, <<>>)
  BY DEF Register, At
<1>2. /\ w \in Ids /\ w = NumberIn(todo[t][1])
      /\ ~isShow => Arg(t)[2] \in DOMAIN Patterns
  <2>1. Arg(t) \in IF isShow THEN Ids \X {0} ELSE Ids \X DOMAIN Patterns
    BY <1>1, FirstStep, Arguments DEF Arg, IInv
  <2>2. NumberIn(todo[t][1]) = w
    BY <1>1 DEF NumberIn, Arg
  <2> QED
    BY <2>1, <2>2
<1>3. scenes \in Seq(0 .. 3) /\ (~isShow => scenes # <<>>) /\ isShow \in BOOLEAN
  BY <1>2, TcpAssumption, EffectPatterns DEF At
<1>4. /\ one \in [scenes : Seq(0 .. 3), show : BOOLEAN, st : States, at : Nat,
                  out : Seq(PacketsOfLamps), told : BOOLEAN]
      /\ one.at <= Len(one.scenes) /\ one.out = <<>> /\ one.st = "new"
      /\ one.show = isShow /\ one.scenes = scenes
  <2>1. <<>> \in Seq(PacketsOfLamps) /\ Len(scenes) \in Nat /\ "new" \in States
    BY <1>3 DEF States
  <2> HIDE DEF scenes, isShow
  <2> QED
    BY <1>3, <2>1
<1> HIDE DEF one, scenes, isShow, w
<1>5. LightTypes' /\ \A v \in Ids : worker'[v] = IF v = w THEN one ELSE worker[v]
  <2>1. show' \in 0 .. MaxFrames /\ effect' \in 0 .. MaxFrames
    BY <1>1, <1>2, TcpAssumption DEF Ids, IInv, TypeOK, LightTypes
  <2>2. /\ IF serial THEN lamp' \subseteq Sides ELSE lamp' \in 0 .. 6
        /\ serial' = serial /\ UNCHANGED story
    BY <1>1 DEF frame, IInv, TypeOK, LightTypes
  <2> QED
    BY <1>1, <1>2, <1>4, <2>1, <2>2, OneWorker
<1>6. Goes(t)
  BY <1>1, GoesOn DEF frame
<1>7. WorkersSound'
  <2>1. ASSUME NEW u \in Threads, todo'[u] # <<>>, todo'[u][1][1] = "launch"
        PROVE  worker'[todo'[u][1][2]].st = "new"
    <3>1. CASE u = t
      <4>1. todo'[u][1][2] = w
        BY <1>2, <1>6, <2>1, <3>1 DEF Goes
      <4> QED
        BY <1>2, <1>4, <1>5, <4>1
    <3>2. CASE u # t
      <4>1. todo'[u] = todo[u]
        BY <1>6, <2>1, <3>2 DEF Goes
      <4>2. worker[todo[u][1][2]].st = "new" /\ todo[u][1][2] \in Ids
        BY <2>1, <4>1, FirstStep, Arguments DEF IInv, WorkersSound
      <4> QED
        BY <1>4, <1>5, <4>1, <4>2
    <3> QED
      BY <3>1, <3>2
  <2>2. \A v \in Ids : worker'[v].st \notin {"none", "done"} /\ ~worker'[v].show
                           => worker'[v].scenes # <<>>
    BY <1>3, <1>4, <1>5 DEF IInv, WorkersSound
  <2> QED
    BY <2>1, <2>2 DEF WorkersSound
<1>8. FrameTypes' /\ FramesApart'
  BY <1>1, <1>6, FrameKept
<1>9. MotionsSound' /\ StopIsHeard'
  BY <1>1, <1>6, MovesKept DEF frame
<1>10. OtherTypes' /\ MonitorSound'
  BY <1>1, OthersKept DEF noises
<1> QED
  BY <1>5, <1>7, <1>8, <1>9, <1>10 DEF IInv, TypeOK

LEMMA LaunchStep ==
    ASSUME IInv, NEW t \in Threads, Launch(t)
    PROVE  IInv'
<1> DEFINE w == Arg(t)
           one == [worker[w] EXCEPT !.st = "turn"]
<1>1. /\ todo[t] # <<>> /\ todo[t][1][1] = "launch"
      /\ UNCHANGED <<frame, show, effect, lamp, moves, noises, monitor, story>>
      /\ worker' = [worker EXCEPT ![w].st = "turn"]
      /\ Then(t, <<>>)
  BY DEF Launch, At
<1>2. w \in Ids /\ worker[w].st = "new"
  <2>1. Arg(t) \in Ids
    BY <1>1, FirstStep, Arguments DEF Arg, IInv
  <2> QED
    BY <1>1, <2>1 DEF Arg, IInv, WorkersSound
<1>3. /\ worker[w] \in [scenes : Seq(0 .. 3), show : BOOLEAN, st : States, at : Nat,
                        out : Seq(PacketsOfLamps), told : BOOLEAN]
      /\ worker[w].at <= Len(worker[w].scenes) /\ worker[w].out = <<>>
  <2>1. /\ worker[w] \in [scenes : Seq(0 .. 3), show : BOOLEAN, st : States, at : Nat,
                          out : Seq(PacketsOfLamps), told : BOOLEAN]
        /\ worker[w].at <= Len(worker[w].scenes)
        /\ worker[w].out # <<>> <=> worker[w].st \in {"write", "dark"}
    BY <1>2 DEF IInv, TypeOK, LightTypes
  <2> QED
    BY <1>2, <2>1
<1>4. /\ one \in [scenes : Seq(0 .. 3), show : BOOLEAN, st : States, at : Nat,
                  out : Seq(PacketsOfLamps), told : BOOLEAN]
      /\ one.at <= Len(one.scenes) /\ one.out = <<>> /\ one.st = "turn"
      /\ one.show = worker[w].show /\ one.scenes = worker[w].scenes
  <2>1. "turn" \in States
    BY DEF States
  <2> QED
    BY <1>3, <2>1
<1>5. worker' = [worker EXCEPT ![w] = one]
  BY <1>1
<1> HIDE DEF one, w
<1>6. LightTypes' /\ \A v \in Ids : worker'[v] = IF v = w THEN one ELSE worker[v]
  <2>1. /\ show' \in 0 .. MaxFrames /\ effect' \in 0 .. MaxFrames
        /\ IF serial THEN lamp' \subseteq Sides ELSE lamp' \in 0 .. 6
        /\ serial' = serial /\ UNCHANGED story
    BY <1>1 DEF frame, IInv, TypeOK, LightTypes
  <2> QED
    BY <1>2, <1>4, <1>5, <2>1, OneWorker
<1>7. Goes(t)
  BY <1>1, GoesOn DEF frame
<1>8. WorkersSound'
  <2>1. ASSUME NEW u \in Threads, todo'[u] # <<>>, todo'[u][1][1] = "launch"
        PROVE  worker'[todo'[u][1][2]].st = "new"
    <3>1. u # t /\ todo'[u] = todo[u]
      BY <1>1, <1>7, <2>1 DEF Goes, New
    <3>2. worker[todo[u][1][2]].st = "new" /\ todo[u][1][2] \in Ids
      BY <2>1, <3>1, FirstStep, Arguments DEF IInv, WorkersSound
    <3>3. todo[u][1][2] # w
      <4>1. /\ 1 \in 1 .. Len(todo[t]) /\ 1 \in 1 .. Len(todo[u])
            /\ Numbered(todo[t][1]) /\ Numbered(todo[u][1])
            /\ NumberIn(todo[t][1]) = w /\ NumberIn(todo[u][1]) = todo[u][1][2]
        BY <1>1, <2>1, <3>1, FirstStep DEF IInv, Numbered, NumberIn, Arg, w
      <4> QED
        BY <3>1, <4>1, Apart DEF IInv
    <3> QED
      BY <1>6, <3>1, <3>2, <3>3
  <2>2. \A v \in Ids : worker'[v].st \notin {"none", "done"} /\ ~worker'[v].show
                           => worker'[v].scenes # <<>>
    BY <1>2, <1>4, <1>6 DEF IInv, WorkersSound
  <2> QED
    BY <2>1, <2>2 DEF WorkersSound
<1>9. FrameTypes' /\ FramesApart'
  BY <1>1, <1>7, FrameKept
<1>10. MotionsSound' /\ StopIsHeard'
  BY <1>1, <1>7, MovesKept DEF frame
<1>11. OtherTypes' /\ MonitorSound'
  BY <1>1, OthersKept DEF noises
<1> QED
  BY <1>6, <1>8, <1>9, <1>10, <1>11 DEF IInv, TypeOK

LEMMA CancelledMotions ==
    ASSUME IInv
    PROVE  Cancelled \in [Ids -> {"none", "runs", "told", "over"}]
  BY DEF Cancelled, IInv, TypeOK, OtherTypes

\* What is in the slot is told to stop, and the slot emptied.
LEMMA SlotEmptied ==
    ASSUME IInv, slot' = None, motion' = Cancelled, UNCHANGED <<begun, owed, displaced>>,
           \A u \in Threads : \A i \in 1 .. Len(todo'[u]) : todo'[u][i][1] = "move"
               => todo'[u][i][2] \in Ids /\ motion[todo'[u][i][2]] = "none"
    PROVE  MotionsSound' /\ StopIsHeard'
<1>1. /\ motion \in [Ids -> {"none", "runs", "told", "over"}] /\ owed \subseteq Ids
      /\ slot # None => slot \in Ids /\ motion[slot] # "none"
      /\ \A m \in Ids : m # None
  BY TcpAssumption DEF IInv, TypeOK, OtherTypes, MotionsSound, Ids, None
<1>2. \A m \in Ids : /\ motion'[m] = "none" <=> motion[m] = "none"
                     /\ motion'[m] = "runs" => motion[m] = "runs" /\ m # slot
  BY <1>1 DEF Cancelled
<1>3. MotionsSound'
  BY <1>1, <1>2 DEF IInv, MotionsSound
<1>4. StopIsHeard'
  BY <1>1, <1>2 DEF IInv, StopIsHeard
<1> QED
  BY <1>3, <1>4

LEMMA MotionSteps ==
    ASSUME IInv, NEW t \in Threads,
           CancelMotion(t) \/ StartMotion(t) \/ RequestMotionStop(t)
    PROVE  IInv'
<1>1. /\ todo[t] # <<>> /\ todo[t][1][1] \notin New /\ Then(t, <<>>)
      /\ UNCHANGED <<frame, lights, noises, monitor, story>>
  BY DEF CancelMotion, StartMotion, RequestMotionStop, At, New
<1>2. Goes(t)
  BY <1>1, GoesOn DEF frame
<1>3. FrameTypes' /\ FramesApart'
  BY <1>1, <1>2, FrameKept
<1>4. LightTypes' /\ WorkersSound'
  <2>1. late' \in BOOLEAN /\ UNCHANGED <<serial, want, mixed, worker>>
    BY <1>1 DEF story, frame, lights, IInv, TypeOK, LightTypes
  <2> QED
    BY <1>1, <1>2, <2>1, LightsKept, WorkersKept
<1>5. MonitorSound'
  BY <1>1 DEF IInv, MonitorSound, monitor, past
<1>6. /\ 0 \in 0 .. MaxFrames /\ begun' = begun /\ \A m \in Ids : m # None
      /\ slot \in 0 .. MaxFrames /\ (slot # None => slot \in Ids)
      /\ motion \in [Ids -> {"none", "runs", "told", "over"}]
  BY <1>1, TcpAssumption DEF frame, IInv, TypeOK, OtherTypes, Ids, None
<1>7. ASSUME NEW u \in Threads, NEW i \in 1 .. Len(todo'[u]), todo'[u][i][1] = "move"
      PROVE  /\ todo'[u][i][2] \in Ids /\ motion[todo'[u][i][2]] = "none"
             /\ todo[t][1][1] = "move" => todo'[u][i][2] # Arg(t)
  <2>1. PICK j \in 1 .. Len(todo[u]) : todo'[u][i] = todo[u][j] /\ (u = t => j # 1)
    BY <1>2, <1>7 DEF Goes
  <2>2. todo[u][j] \in Steps
    BY ElementOfSeq DEF IInv, TypeOK, FrameTypes
  <2>3. todo'[u][i][2] \in Ids
    BY <1>7, <2>1, <2>2, Arguments
  <2>4. motion[todo'[u][i][2]] = "none"
    BY <1>7, <2>1 DEF IInv, MotionsSound
  <2>5. ASSUME todo[t][1][1] = "move"
        PROVE  todo'[u][i][2] # Arg(t)
    <3>1. /\ 1 \in 1 .. Len(todo[t]) /\ Numbered(todo[t][1]) /\ Numbered(todo[u][j])
          /\ NumberIn(todo[t][1]) = Arg(t) /\ NumberIn(todo[u][j]) = todo'[u][i][2]
      BY <1>1, <1>7, <2>1, <2>5, FirstStep DEF IInv, Numbered, NumberIn, Arg
    <3> QED
      BY <1>7, <2>1, <2>5, <3>1, Apart DEF IInv
  <2> QED
    BY <2>3, <2>4, <2>5
<1>8. CASE CancelMotion(t)
  <2>1. slot' = None /\ UNCHANGED <<stopper, owed, displaced>> /\ motion' = Cancelled
    BY <1>8 DEF CancelMotion
  <2>2. OtherTypes'
    BY <1>1, <1>6, <2>1, CancelledMotions DEF IInv, TypeOK, OtherTypes, monitor, past, noises, None
  <2>3. MotionsSound' /\ StopIsHeard'
    BY <1>6, <1>7, <2>1, SlotEmptied
  <2> QED
    BY <1>3, <1>4, <1>5, <2>2, <2>3 DEF IInv, TypeOK
<1>9. CASE StartMotion(t)
  <2>1. /\ todo[t][1][1] = "move" /\ slot' = Arg(t) /\ UNCHANGED <<stopper, owed>>
        /\ motion' = [motion EXCEPT ![Arg(t)] = "runs"]
        /\ displaced' = displaced \cup ({slot} \ {None})
    BY <1>9 DEF StartMotion, At
  <2>2. Arg(t) \in Ids /\ Arg(t) \in 1 .. begun /\ motion[Arg(t)] = "none"
    <3>1. 1 \in 1 .. Len(todo[t]) /\ Numbered(todo[t][1]) /\ NumberIn(todo[t][1]) = Arg(t)
      BY <1>1, <2>1, FirstStep DEF IInv, Numbered, NumberIn, Arg
    <3>2. Arg(t) \in 1 .. begun
      BY <3>1, Apart DEF IInv
    <3>3. Arg(t) \in Ids
      BY <1>1, <2>1, FirstStep, Arguments DEF IInv, Arg
    <3>4. motion[Arg(t)] = "none"
      BY <2>1, <3>1 DEF IInv, MotionsSound, Arg
    <3> QED
      BY <3>2, <3>3, <3>4
  <2>3. Arg(t) \in 0 .. MaxFrames /\ Arg(t) <= begun /\ Arg(t) # None
    BY <2>2, TcpAssumption DEF Ids, None, IInv, TypeOK, FrameTypes
  <2> DEFINE m == Arg(t)
  <2> HIDE DEF m
  <2>4. /\ m \in Ids /\ m \in 0 .. MaxFrames /\ m <= begun /\ motion[m] = "none"
        /\ slot' = m /\ motion' = [motion EXCEPT ![m] = "runs"] /\ m # None
        /\ todo[t][1][1] = "move" /\ UNCHANGED <<stopper, owed>>
        /\ displaced' = displaced \cup ({slot} \ {None})
    BY <2>1, <2>2, <2>3 DEF m
  <2>5. /\ motion'[m] = "runs" /\ \A n \in Ids \ {m} : motion'[n] = motion[n]
        /\ motion' \in [Ids -> {"none", "runs", "told", "over"}]
    BY <1>6, <2>4
  <2>6. OtherTypes'
    BY <1>1, <1>6, <2>4, <2>5 DEF IInv, TypeOK, OtherTypes, monitor, past, noises
  <2>7. MotionsSound'
    <3>1. \A n \in Ids : motion'[n] # "none" => n <= begun'
      BY <1>6, <2>4, <2>5 DEF IInv, MotionsSound
    <3>2. \A n \in Ids : motion'[n] = "runs" => slot' = n \/ n \in displaced'
      <4>1. ASSUME NEW n \in Ids, motion'[n] = "runs", n # m PROVE n \in displaced'
        <5>1. slot = n \/ n \in displaced
          BY <2>5, <4>1 DEF IInv, MotionsSound
        <5> QED
          BY <1>6, <2>4, <5>1
      <4> QED
        BY <2>4, <4>1
    <3>3. \A n \in owed' : motion'[n] # "none"
      BY <2>4, <2>5 DEF IInv, MotionsSound, TypeOK, OtherTypes
    <3>4. \A u \in Threads : \A i \in 1 .. Len(todo'[u]) :
              todo'[u][i][1] = "move" => motion'[todo'[u][i][2]] = "none"
      BY <1>7, <2>4, <2>5 DEF m
    <3> QED
      BY <2>4, <2>5, <3>1, <3>2, <3>3, <3>4 DEF MotionsSound
  <2>8. StopIsHeard'
    <3>1. ASSUME NEW n \in owed, motion'[n] = "runs"
          PROVE  n \in displaced' \/ (slot' = n /\ stopper' = "begun")
      <4>1. n \in Ids /\ motion[n] # "none"
        BY DEF IInv, MotionsSound, TypeOK, OtherTypes
      <4>2. n # m /\ motion[n] = "runs"
        BY <2>4, <2>5, <3>1, <4>1
      <4>3. slot = n \/ n \in displaced
        BY <4>1, <4>2 DEF IInv, MotionsSound
      <4> QED
        BY <1>6, <2>4, <4>1, <4>3
    <3> QED
      BY <2>4, <3>1 DEF StopIsHeard
  <2> QED
    BY <1>3, <1>4, <1>5, <2>6, <2>7, <2>8 DEF IInv, TypeOK
<1>10. CASE RequestMotionStop(t)
  <2>1. /\ UNCHANGED <<slot, motion, displaced>>
        /\ stopper' = IF stopper = "idle" THEN "begun" ELSE stopper
        /\ owed' = IF stopper = "zeroing" THEN owed ELSE owed \cup {m \in Ids : motion[m] = "runs"}
    BY <1>10 DEF RequestMotionStop
  <2>2. OtherTypes'
    <3>1. owed' \subseteq Ids /\ stopper' \in {"idle", "begun", "zeroing"}
      BY <2>1 DEF IInv, TypeOK, OtherTypes
    <3> QED
      BY <1>1, <2>1, <3>1 DEF IInv, TypeOK, OtherTypes, monitor, past, noises
  <2>3. \A m \in owed' : m \in owed \/ (m \in Ids /\ motion[m] = "runs" /\ stopper # "zeroing")
    BY <2>1
  <2>4. MotionsSound'
    <3>1. \A m \in owed' : motion'[m] # "none"
      BY <2>1, <2>3 DEF IInv, MotionsSound
    <3>2. \A u \in Threads : \A i \in 1 .. Len(todo'[u]) :
              todo'[u][i][1] = "move" => motion'[todo'[u][i][2]] = "none"
      BY <1>7, <2>1
    <3> QED
      BY <1>6, <2>1, <3>1, <3>2 DEF IInv, MotionsSound
  <2>5. StopIsHeard'
    <3>1. ASSUME NEW m \in owed', motion'[m] = "runs"
          PROVE  (slot' = m /\ stopper' = "begun") \/ m \in displaced'
      <4>1. CASE m \in owed
        <5>1. (slot = m /\ stopper = "begun") \/ m \in displaced
          BY <2>1, <3>1, <4>1 DEF IInv, StopIsHeard
        <5> QED
          BY <2>1, <5>1
      <4>2. CASE m \in Ids /\ motion[m] = "runs" /\ stopper # "zeroing"
        <5>1. slot = m \/ m \in displaced
          BY <4>2 DEF IInv, MotionsSound
        <5>2. stopper' = "begun"
          BY <2>1, <4>2 DEF IInv, TypeOK, OtherTypes
        <5> QED
          BY <2>1, <5>1, <5>2
      <4> QED
        BY <2>3, <4>1, <4>2
    <3> QED
      BY <3>1 DEF StopIsHeard
  <2> QED
    BY <1>3, <1>4, <1>5, <2>2, <2>4, <2>5 DEF IInv, TypeOK
<1> QED
  BY <1>8, <1>9, <1>10

\* The worker of a motion and the one of a stop are no threads of todo.
LEMMA MotionEnds ==
    ASSUME IInv, (\E m \in Ids : EndMotion(m)) \/ StopWorker
    PROVE  IInv'
<1>1. UNCHANGED <<frame, todo, lights, owed, displaced, noises, monitor, story>>
  BY DEF EndMotion, StopWorker
<1>2. FrameTypes' /\ FramesApart'
  <2>1. Steps' = Steps
    BY <1>1, SameSteps DEF frame
  <2> QED
    BY <1>1, <2>1 DEF IInv, TypeOK, FrameTypes, FramesApart, frame
<1>3. LightTypes' /\ WorkersSound'
  <2>1. late' \in BOOLEAN /\ UNCHANGED <<serial, want, mixed>>
    BY <1>1 DEF story, frame, IInv, TypeOK, LightTypes
  <2>2. LightTypes'
    BY <1>1, <2>1, LightsKept
  <2> QED
    BY <1>1, <2>2 DEF IInv, WorkersSound, lights
<1>4. MonitorSound'
  BY <1>1 DEF IInv, MonitorSound, monitor, past
<1>5. slot' = slot \/ slot' = 0
  BY DEF EndMotion, StopWorker, None
<1>6. motion' \in [Ids -> {"none", "runs", "told", "over"}]
  BY CancelledMotions DEF EndMotion, StopWorker, IInv, TypeOK, OtherTypes
<1>7. OtherTypes'
  <2>1. slot' \in 0 .. MaxFrames
    BY <1>5, TcpAssumption DEF IInv, TypeOK, OtherTypes
  <2>2. stopper' \in {"idle", "begun", "zeroing"}
    BY DEF EndMotion, StopWorker, IInv, TypeOK, OtherTypes
  <2> QED
    BY <1>1, <1>6, <2>1, <2>2 DEF IInv, TypeOK, OtherTypes, monitor, past, noises
<1>8. /\ \A u \in Threads : \A i \in 1 .. Len(todo'[u]) : todo'[u][i][1] = "move"
             => todo'[u][i][2] \in Ids /\ motion[todo'[u][i][2]] = "none"
      /\ begun' = begun
  <2>1. ASSUME NEW u \in Threads, NEW i \in 1 .. Len(todo[u]), todo[u][i][1] = "move"
        PROVE  todo[u][i][2] \in Ids /\ motion[todo[u][i][2]] = "none"
    <3>1. todo[u][i] \in Steps
      BY ElementOfSeq DEF IInv, TypeOK, FrameTypes
    <3> QED
      BY <2>1, <3>1, Arguments DEF IInv, MotionsSound
  <2> QED
    BY <1>1, <2>1 DEF frame
<1>9. MotionsSound' /\ StopIsHeard'
  <2>1. ASSUME NEW m \in Ids, EndMotion(m) PROVE MotionsSound' /\ StopIsHeard'
    <3>1. /\ motion[m] \in {"runs", "told"} /\ motion' = [motion EXCEPT ![m] = "over"]
          /\ slot' = IF slot = m THEN None ELSE slot
          /\ UNCHANGED <<stopper, owed, displaced>>
      BY <2>1 DEF EndMotion
    <3>2. /\ motion'[m] = "over" /\ \A n \in Ids \ {m} : motion'[n] = motion[n]
          /\ slot # None => slot \in Ids
      BY <3>1, TcpAssumption DEF IInv, TypeOK, OtherTypes, Ids, None
    <3>3. MotionsSound'
      BY <1>8, <3>1, <3>2 DEF IInv, TypeOK, OtherTypes, MotionsSound
    <3>4. StopIsHeard'
      BY <3>1, <3>2 DEF IInv, TypeOK, OtherTypes, StopIsHeard
    <3> QED
      BY <3>3, <3>4
  <2>2. CASE StopWorker /\ motion' = Cancelled /\ slot' = None
    BY <1>1, <1>8, <2>2, SlotEmptied
  <2>3. CASE StopWorker /\ stopper = "zeroing" /\ UNCHANGED <<motion, slot>>
    <3>1. MotionsSound'
      BY <1>1, <1>8, <2>3 DEF IInv, MotionsSound
    <3>2. StopIsHeard'
      BY <1>1, <2>3 DEF IInv, StopIsHeard
    <3> QED
      BY <3>1, <3>2
  <2> QED
    BY <2>1, <2>2, <2>3 DEF StopWorker
<1> QED
  BY <1>2, <1>3, <1>4, <1>7, <1>8, <1>9 DEF IInv, TypeOK

\* A worker of the lights goes on: what waits to be launched is not it.
LEMMA WorkerGoes ==
    ASSUME IInv, NEW w \in Ids, worker[w].st # "new",
           NEW one \in [scenes : Seq(0 .. 3), show : BOOLEAN, st : States, at : Nat,
                        out : Seq(PacketsOfLamps), told : BOOLEAN],
           one.at <= Len(one.scenes), one.out # <<>> <=> one.st \in {"write", "dark"},
           one.st \notin {"none", "done"} /\ ~one.show => one.scenes # <<>>,
           worker' = [worker EXCEPT ![w] = one],
           show' \in 0 .. MaxFrames, effect' \in 0 .. MaxFrames,
           IF serial THEN lamp' \subseteq Sides ELSE lamp' \in 0 .. 6,
           UNCHANGED <<frame, todo, moves, noises, monitor, story>>
    PROVE  IInv'
<1>1. UNCHANGED <<serial, closed, budget, begun, todo, late, want, mixed, trackers>> /\ UNCHANGED story
  BY DEF frame, story, noises
<1>2. LightTypes' /\ \A v \in Ids : worker'[v] = IF v = w THEN one ELSE worker[v]
  BY <1>1, OneWorker
<1>3. WorkersSound'
  <2>1. ASSUME NEW u \in Threads, todo[u] # <<>>, todo[u][1][1] = "launch"
        PROVE  worker'[todo[u][1][2]].st = "new"
    <3>1. worker[todo[u][1][2]].st = "new" /\ todo[u][1][2] \in Ids
      BY <2>1, FirstStep, Arguments DEF IInv, WorkersSound
    <3> QED
      BY <1>2, <3>1
  <2>2. \A v \in Ids : worker'[v].st \notin {"none", "done"} /\ ~worker'[v].show
                           => worker'[v].scenes # <<>>
    BY <1>2 DEF IInv, WorkersSound
  <2> QED
    BY <1>1, <2>1, <2>2 DEF WorkersSound
<1>4. FrameTypes' /\ FramesApart'
  <2>1. Steps' = Steps
    BY <1>1, SameSteps
  <2> QED
    BY <1>1, <2>1 DEF IInv, TypeOK, FrameTypes, FramesApart
<1>5. MotionsSound' /\ StopIsHeard'
  BY <1>1 DEF IInv, MotionsSound, StopIsHeard, moves
<1>6. OtherTypes' /\ MonitorSound'
  BY <1>1, OthersKept
<1> QED
  BY <1>2, <1>3, <1>4, <1>5, <1>6 DEF IInv, TypeOK

LEMMA UpdatedWorker ==
    ASSUME NEW packets,
           NEW r \in [scenes : Seq(0 .. 3), show : BOOLEAN, st : States, at : Nat,
                      out : Seq(packets), told : BOOLEAN],
           NEW s \in States, NEW n \in Nat, NEW o \in Seq(packets),
           NEW one, one = [r EXCEPT !.st = s, !.at = n, !.out = o]
    PROVE  /\ one \in [scenes : Seq(0 .. 3), show : BOOLEAN, st : States, at : Nat,
                       out : Seq(packets), told : BOOLEAN]
           /\ one.at = n /\ one.scenes = r.scenes /\ one.out = o /\ one.st = s
           /\ one.show = r.show
<1>1. one.at = n /\ one.scenes = r.scenes /\ one.out = o /\ one.st = s /\ one.show = r.show
  OBVIOUS
<1>2. one \in [scenes : Seq(0 .. 3), show : BOOLEAN, st : States, at : Nat,
               out : Seq(packets), told : BOOLEAN]
  OBVIOUS
<1> QED
  BY <1>1, <1>2

\* What a worker becomes.
LEMMA Becomes ==
    ASSUME IInv, NEW w \in Ids, NEW st \in States, NEW at \in Nat, NEW out \in Seq(PacketsOfLamps),
           Become(w, st, at, out), worker[w].st \notin {"none", "done", "new"},
           at <= Len(worker[w].scenes), out # <<>> <=> st \in {"write", "dark"}
    PROVE  \E one \in [scenes : Seq(0 .. 3), show : BOOLEAN, st : States, at : Nat,
                       out : Seq(PacketsOfLamps), told : BOOLEAN] :
               /\ worker' = [worker EXCEPT ![w] = one]
               /\ one.at <= Len(one.scenes)
               /\ one.out # <<>> <=> one.st \in {"write", "dark"}
               /\ one.st \notin {"none", "done"} /\ ~one.show => one.scenes # <<>>
<1>1. worker[w] \in [scenes : Seq(0 .. 3), show : BOOLEAN, st : States, at : Nat,
                     out : Seq(PacketsOfLamps), told : BOOLEAN]
  BY DEF IInv, TypeOK, LightTypes
<1>2. ~worker[w].show => worker[w].scenes # <<>>
  BY DEF IInv, WorkersSound
<1>3. CASE st = "done"
  <2>1. worker' = [worker EXCEPT ![w] = Over]
    BY <1>3 DEF Become
  <2>2. /\ Over \in [scenes : Seq(0 .. 3), show : BOOLEAN, st : States, at : Nat,
                     out : Seq(PacketsOfLamps), told : BOOLEAN]
        /\ Over.at <= Len(Over.scenes) /\ Over.out = <<>> /\ Over.st = "done"
    <3>1. <<>> \in Seq(0 .. 3) /\ <<>> \in Seq(PacketsOfLamps) /\ Len(<<>>) = 0 /\ "done" \in States
      BY EmptySeq DEF States
    <3> QED
      BY <3>1 DEF Over
  <2> QED
    BY <2>1, <2>2
<1>4. CASE st # "done"
  <2> DEFINE one == [worker[w] EXCEPT !.st = st, !.at = at, !.out = out]
  <2>1. worker' = [worker EXCEPT ![w].st = st, ![w].at = at, ![w].out = out]
    BY <1>4 DEF Become
  <2>2. worker' = [worker EXCEPT ![w] = [worker[w] EXCEPT !.st = st, !.at = at, !.out = out]]
    BY <2>1 DEF IInv, TypeOK, LightTypes
  <2>3. one = [worker[w] EXCEPT !.st = st, !.at = at, !.out = out]
    OBVIOUS
  <2> HIDE DEF one
  <2>4. /\ one \in [scenes : Seq(0 .. 3), show : BOOLEAN, st : States, at : Nat,
                    out : Seq(PacketsOfLamps), told : BOOLEAN]
        /\ one.at = at /\ one.scenes = worker[w].scenes /\ one.out = out /\ one.st = st
        /\ one.show = worker[w].show
    BY <1>1, <2>3, UpdatedWorker
  <2>5. worker' = [worker EXCEPT ![w] = one]
    BY <2>2, <2>3
  <2> QED
    BY <1>2, <2>4, <2>5
<1> QED
  BY <1>3, <1>4

LEMMA NextSceneStep ==
    ASSUME IInv, NEW w \in Ids, NextScene(w)
    PROVE  IInv'
<1> DEFINE rec == worker[w]
           over == rec.at = Len(rec.scenes)
           next == IF over THEN 1 ELSE rec.at + 1
<1>1. /\ rec.st = "turn"
      /\ UNCHANGED <<frame, todo, show, effect, lamp, moves, noises, monitor, story>>
  BY DEF NextScene
<1>2. /\ rec \in [scenes : Seq(0 .. 3), show : BOOLEAN, st : States, at : Nat,
                  out : Seq(PacketsOfLamps), told : BOOLEAN]
      /\ rec.at <= Len(rec.scenes) /\ (~rec.show => rec.scenes # <<>>)
      /\ serial \in BOOLEAN
  BY <1>1 DEF IInv, TypeOK, FrameTypes, LightTypes, WorkersSound
<1>3. /\ Packets(Off) \in Seq(PacketsOfLamps) /\ Packets(Off) # <<>> /\ <<>> \in Seq(PacketsOfLamps)
  BY <1>2, SceneSteps DEF Off
<1>4. \/ Become(w, "dark", rec.at, Packets(Off)) \/ Become(w, "clear", rec.at, <<>>)
      \/ ~(rec.show /\ over) /\ Become(w, "write", next, Packets(rec.scenes[next]))
  BY DEF NextScene
<1>5. {"dark", "clear", "write"} \subseteq States
  BY DEF States
<1>6. \E one \in [scenes : Seq(0 .. 3), show : BOOLEAN, st : States, at : Nat,
                  out : Seq(PacketsOfLamps), told : BOOLEAN] :
               /\ worker' = [worker EXCEPT ![w] = one]
               /\ one.at <= Len(one.scenes)
               /\ one.out # <<>> <=> one.st \in {"write", "dark"}
               /\ one.st \notin {"none", "done"} /\ ~one.show => one.scenes # <<>>
  <2>1. CASE Become(w, "dark", rec.at, Packets(Off))
    BY <1>1, <1>2, <1>3, <1>5, <2>1, Becomes
  <2>2. CASE Become(w, "clear", rec.at, <<>>)
    BY <1>1, <1>2, <1>3, <1>5, <2>2, Becomes
  <2>3. CASE ~(rec.show /\ over) /\ Become(w, "write", next, Packets(rec.scenes[next]))
    <3>1. Len(rec.scenes) \in Nat /\ rec.at \in Nat /\ (~rec.show => Len(rec.scenes) >= 1)
      BY <1>2, EmptySeq
    <3>2. next \in 1 .. Len(rec.scenes)
      BY <1>2, <2>3, <3>1
    <3>3. rec.scenes[next] \in 0 .. 3
      BY <1>2, <3>2, ElementOfSeq
    <3> HIDE DEF next
    <3>4. /\ Packets(rec.scenes[next]) \in Seq(PacketsOfLamps)
          /\ Packets(rec.scenes[next]) # <<>>
      <4> DEFINE s == rec.scenes[next]
      <4>1. s \in 0 .. 6 /\ s <= 3
        BY <3>3
      <4> HIDE DEF s
      <4>2. Packets(s) \in Seq(PacketsOfLamps) /\ Packets(s) # <<>>
        BY <1>2, <4>1, SceneSteps
      <4> QED
        BY <4>2 DEF s
    <3>5. next \in Nat /\ next <= Len(rec.scenes)
      BY <3>1, <3>2
    <3> QED
      BY <1>1, <1>5, <2>3, <3>4, <3>5, Becomes
  <2> QED
    BY <1>4, <2>1, <2>2, <2>3
<1>7. /\ show' \in 0 .. MaxFrames /\ effect' \in 0 .. MaxFrames
      /\ IF serial THEN lamp' \subseteq Sides ELSE lamp' \in 0 .. 6
  BY <1>1 DEF IInv, TypeOK, LightTypes
<1> QED
  BY <1>1, <1>6, <1>7, WorkerGoes

LEMMA WritePacketStep ==
    ASSUME IInv, NEW w \in Ids, WritePacket(w)
    PROVE  IInv'
<1> DEFINE rec == worker[w]
           after == IF Len(rec.out) > 1 THEN rec.st
                    ELSE IF rec.st = "dark" THEN "clear" ELSE "turn"
<1>1. /\ rec.st \in {"write", "dark"}
      /\ UNCHANGED <<frame, todo, show, effect, moves, noises, monitor, story>>
  BY DEF WritePacket
<1>2. /\ rec \in [scenes : Seq(0 .. 3), show : BOOLEAN, st : States, at : Nat,
                  out : Seq(PacketsOfLamps), told : BOOLEAN]
      /\ rec.at <= Len(rec.scenes) /\ rec.out # <<>>
  BY <1>1 DEF IInv, TypeOK, LightTypes
<1>3. /\ Tail(rec.out) \in Seq(PacketsOfLamps) /\ rec.out[1] \in PacketsOfLamps
      /\ Tail(rec.out) # <<>> <=> Len(rec.out) > 1
  <2>1. /\ Tail(rec.out) \in Seq(PacketsOfLamps) /\ Len(Tail(rec.out)) = Len(rec.out) - 1
        /\ Len(rec.out) \in Nat /\ Len(rec.out) # 0
    BY <1>2, HeadTailProperties, EmptySeq
  <2>2. rec.out[1] \in PacketsOfLamps
    <3>1. 1 \in 1 .. Len(rec.out)
      BY <2>1
    <3> QED
      BY <1>2, <3>1, ElementOfSeq
  <2>3. Tail(rec.out) = <<>> <=> Len(Tail(rec.out)) = 0
    BY <2>1, EmptySeq
  <2>4. Len(Tail(rec.out)) = 0 <=> ~(Len(rec.out) > 1)
    <3>1. \A m, n \in Nat : m = n - 1 => (m = 0 <=> ~(n > 1))
      OBVIOUS
    <3>2. Len(Tail(rec.out)) \in Nat
      BY <2>1
    <3> QED
      BY <2>1, <3>1, <3>2
  <2>5. Tail(rec.out) # <<>> <=> Len(rec.out) > 1
    BY <2>3, <2>4
  <2> QED
    BY <2>1, <2>2, <2>5
<1>4. <<>> \in Seq(PacketsOfLamps) /\ {"done", "clear", "turn", "write", "dark"} \subseteq States
  BY DEF States
<1>5. /\ after \in {"clear", "turn", "write", "dark"}
      /\ after \in {"write", "dark"} <=> Len(rec.out) > 1
  BY <1>1
<1>6. \/ /\ Become(w, "done", rec.at, <<>>) \/ Become(w, "clear", rec.at, <<>>)
         /\ lamp' = lamp
      \/ /\ Become(w, after, rec.at, Tail(rec.out))
         /\ lamp' = Lit(rec.out[1])
  BY DEF WritePacket
<1> HIDE DEF after
<1>7. \E one \in [scenes : Seq(0 .. 3), show : BOOLEAN, st : States, at : Nat,
                  out : Seq(PacketsOfLamps), told : BOOLEAN] :
               /\ worker' = [worker EXCEPT ![w] = one]
               /\ one.at <= Len(one.scenes)
               /\ one.out # <<>> <=> one.st \in {"write", "dark"}
               /\ one.st \notin {"none", "done"} /\ ~one.show => one.scenes # <<>>
  <2>1. CASE Become(w, "done", rec.at, <<>>)
    BY <1>1, <1>2, <1>4, <2>1, Becomes
  <2>2. CASE Become(w, "clear", rec.at, <<>>)
    BY <1>1, <1>2, <1>4, <2>2, Becomes
  <2>3. CASE Become(w, after, rec.at, Tail(rec.out))
    BY <1>1, <1>2, <1>3, <1>4, <1>5, <2>3, Becomes
  <2> QED
    BY <1>6, <2>1, <2>2, <2>3
<1>8. IF serial THEN lamp' \subseteq Sides ELSE lamp' \in 0 .. 6
  BY <1>3, <1>6, LitLamps DEF IInv, TypeOK, FrameTypes, LightTypes
<1>9. show' \in 0 .. MaxFrames /\ effect' \in 0 .. MaxFrames
  BY <1>1 DEF IInv, TypeOK, LightTypes
<1>10. rec.st # "new"
  BY <1>1
<1> QED
  BY <1>1, <1>7, <1>8, <1>9, <1>10, WorkerGoes

LEMMA ClearSlotStep ==
    ASSUME IInv, NEW w \in Ids, ClearSlot(w)
    PROVE  IInv'
<1>1. /\ worker[w].st = "clear" /\ Become(w, "done", worker[w].at, <<>>)
      /\ UNCHANGED <<frame, todo, lamp, moves, noises, monitor, story>>
  BY DEF ClearSlot
<1>2. /\ worker[w].at \in Nat /\ worker[w].at <= Len(worker[w].scenes)
      /\ <<>> \in Seq(PacketsOfLamps) /\ "done" \in States
  BY DEF IInv, TypeOK, LightTypes, States
<1>3. \E one \in [scenes : Seq(0 .. 3), show : BOOLEAN, st : States, at : Nat,
                  out : Seq(PacketsOfLamps), told : BOOLEAN] :
               /\ worker' = [worker EXCEPT ![w] = one]
               /\ one.at <= Len(one.scenes)
               /\ one.out # <<>> <=> one.st \in {"write", "dark"}
               /\ one.st \notin {"none", "done"} /\ ~one.show => one.scenes # <<>>
  BY <1>1, <1>2, Becomes
<1>4. /\ show' \in 0 .. MaxFrames /\ effect' \in 0 .. MaxFrames
      /\ IF serial THEN lamp' \subseteq Sides ELSE lamp' \in 0 .. 6
  BY <1>1, TcpAssumption DEF ClearSlot, None, IInv, TypeOK, LightTypes
<1> QED
  BY <1>1, <1>3, <1>4, WorkerGoes

----------------------------------------------------------------------------
\* A frame begins.
LEMMA WantedTypes ==
    ASSUME IInv, NEW f \in Frames
    PROVE  Wanted(f) \in {"scene", "effect", "any"} \X (0 .. 6)
<1>1. want \in {"scene", "effect", "any"} \X (0 .. 6) /\ f.data \in Seq(0 .. 255)
  BY TcpAssumption DEF IInv, TypeOK, LightTypes
<1>2. /\ \A s \in 0 .. 6 : <<"scene", s>> \in {"scene", "effect", "any"} \X (0 .. 6)
      /\ \A s \in 0 .. 6 : <<"effect", s>> \in {"scene", "effect", "any"} \X (0 .. 6)
      /\ \A s \in 0 .. 6 : <<"any", s>> \in {"scene", "effect", "any"} \X (0 .. 6)
  OBVIOUS
<1>3. \A d : DirectionScene(d) \in 0 .. 6
  BY DEF DirectionScene, On, Left, Right
<1>4. \/ Wanted(f) = want
      \/ Wanted(f) = <<"scene", Off>>
      \/ Wanted(f) = <<"scene", DirectionScene(f.data[1])>>
      \/ f.data[1] \in 1 .. 5 /\ Wanted(f) = <<"effect", f.data[1]>>
      \/ Wanted(f) = <<IF serial THEN "any" ELSE "effect", 6>>
  BY DEF Wanted
<1> QED
  BY <1>1, <1>2, <1>3, <1>4 DEF Off

LEMMA ReceiveStep ==
    ASSUME IInv, NEW c \in Conns, Receive(c)
    PROVE  IInv'
<1>1. PICK f \in Frames :
          /\ todo[c] = <<>> /\ budget.frames > 0
          /\ budget' = [budget EXCEPT !.frames = @ - 1]
          /\ Enter(c, HandleFrame(f))
          /\ want' = Wanted(f)
          /\ UNCHANGED <<serial, closed, lights, moves, noises, monitor, late>>
  BY DEF Receive
<1>2. c \in Threads /\ Number \in Ids /\ serial \in BOOLEAN
  BY <1>1, TcpAssumption DEF Threads, Ids, Number, Enter, IInv, TypeOK, FrameTypes
<1>3. /\ todo' \in [Threads -> Seq(Steps)] /\ begun' \in 0 .. MaxFrames
      /\ FramesApart' /\ MotionsSound' /\ StopIsHeard' /\ WorkersSound'
  BY <1>1, <1>2, FrameSteps, Enters DEF lights, moves
<1>4. FrameTypes'
  <2>1. budget' \in [frames : Nat, scans : Nat, close : BOOLEAN]
    BY <1>1 DEF IInv, TypeOK, FrameTypes
  <2> QED
    BY <1>1, <1>3, <2>1, SameSteps DEF IInv, TypeOK, FrameTypes
<1>5. LightTypes'
  <2>1. want' \in {"scene", "effect", "any"} \X (0 .. 6)
    BY <1>1, WantedTypes
  <2>2. mixed' \in BOOLEAN
    BY <1>1 DEF Enter, IInv, TypeOK, LightTypes
  <2> QED
    BY <1>1, <2>1, <2>2, SameSteps DEF lights, IInv, TypeOK, LightTypes
<1>6. OtherTypes' /\ MonitorSound'
  BY <1>1, OthersKept DEF noises
<1> QED
  BY <1>3, <1>4, <1>5, <1>6 DEF IInv, TypeOK

LEMMA ShutdownStep ==
    ASSUME IInv, Shutdown
    PROVE  IInv'
<1>1. /\ todo["main"] = <<>> /\ Enter("main", Close) /\ want' = <<"scene", Off>>
      /\ UNCHANGED <<serial, closed, budget, lights, moves, noises, monitor, late>>
  BY DEF Shutdown
<1>2. "main" \in Threads /\ Number \in Ids /\ serial \in BOOLEAN
  BY <1>1, TcpAssumption DEF Threads, Ids, Number, Enter, IInv, TypeOK, FrameTypes
<1>3. /\ todo' \in [Threads -> Seq(Steps)] /\ begun' \in 0 .. MaxFrames
      /\ FramesApart' /\ MotionsSound' /\ StopIsHeard' /\ WorkersSound'
  BY <1>1, <1>2, OtherHandlers, Enters DEF lights, moves
<1>4. FrameTypes'
  BY <1>1, <1>3, SameSteps DEF IInv, TypeOK, FrameTypes
<1>5. LightTypes'
  <2>1. want' \in {"scene", "effect", "any"} \X (0 .. 6)
    BY <1>1 DEF Off
  <2>2. mixed' \in BOOLEAN
    BY <1>1 DEF Enter, IInv, TypeOK, LightTypes
  <2> QED
    BY <1>1, <2>1, <2>2, SameSteps DEF lights, IInv, TypeOK, LightTypes
<1>6. OtherTypes' /\ MonitorSound'
  BY <1>1, OthersKept DEF noises
<1> QED
  BY <1>3, <1>4, <1>5, <1>6 DEF IInv, TypeOK

\* The monitor.
LEMMA Cap ==
    ASSUME NEW n \in Nat, NEW cap \in Nat
    PROVE  Capped(n, cap) \in 0 .. cap /\ (n >= cap => Capped(n, cap) = cap)
           /\ (n <= cap => Capped(n, cap) = n)
  BY DEF Capped

LEMMA Lapse ==
    ASSUME NEW cap \in Nat, NEW n \in -1 .. cap, NEW gap \in Nat
    PROVE  /\ Later(n, gap, cap) \in -1 .. cap /\ Later(n, gap, cap) >= n
           /\ \A m \in -1 .. cap : m <= n => Later(m, gap, cap) <= Later(n, gap, cap)
           /\ (n # -1 => Later(n, gap, cap) >= 0)
  BY DEF Later, Capped

MonitorTypes ==
    /\ blocked \in BOOLEAN /\ sinceWarning \in 0 .. Cooldown /\ clearFor \in -1 .. Dwell
    /\ quiet \in 0 .. Cooldown /\ elapsed \in 0 .. Cooldown
    /\ firstClear \in -1 .. Dwell /\ clearSpan \in -1 .. Dwell

LEMMA ScanTimes ==
    ASSUME IInv, NEW gap \in Gaps, ClearScan(gap) \/ UnclearScan(gap) \/ BlockedScan(gap)
    PROVE  MonitorTypes' /\ MonitorSound'
<1>1. /\ MonitorTypes /\ gap \in Nat /\ Dwell \in Nat /\ Cooldown \in Nat
      /\ sinceWarning = quiet /\ clearFor <= firstClear /\ clearSpan <= firstClear
      /\ ~blocked => clearFor >= Dwell /\ clearSpan >= Dwell
  BY TcpAssumption DEF IInv, TypeOK, OtherTypes, MonitorSound, MonitorTypes
<1> DEFINE since == Capped(sinceWarning + gap, Cooldown)
           cleared == Later(clearFor, gap, Dwell)
           first == Later(firstClear, gap, Dwell)
<1>2. since = Capped(quiet + gap, Cooldown) /\ since \in 0 .. Cooldown
  BY <1>1, Cap DEF MonitorTypes
<1>3. /\ cleared \in -1 .. Dwell /\ cleared >= clearFor /\ (clearFor # -1 => cleared >= 0)
      /\ first \in -1 .. Dwell /\ first >= firstClear /\ (firstClear # -1 => first >= 0)
      /\ cleared <= first
  BY <1>1, Lapse DEF MonitorTypes
<1> HIDE DEF since, cleared, first
<1>4. CASE ClearScan(gap)
  <2>1. /\ clearFor' = IF clearFor = -1 THEN 0 ELSE cleared
        /\ blocked' = (blocked /\ (clearFor = -1 \/ clearFor' < Dwell))
        /\ sinceWarning' = since /\ elapsed' = since /\ quiet' = since
        /\ firstClear' = IF firstClear = -1 THEN 0 ELSE first
        /\ clearSpan' = firstClear'
    BY <1>2, <1>4 DEF ClearScan, Remember, since, cleared, first
  <2>2. MonitorTypes'
    BY <1>1, <1>2, <1>3, <2>1 DEF MonitorTypes
  <2>3. clearFor' <= firstClear'
    BY <1>1, <1>3, <2>1 DEF MonitorTypes
  <2>4. ~blocked' => clearFor' >= Dwell
    <3>1. CASE blocked
      <4>1. ~blocked' => ~(clearFor = -1) /\ ~(clearFor' < Dwell)
        BY <2>1, <3>1
      <4> QED
        BY <1>1, <2>2, <4>1 DEF MonitorTypes
    <3>2. CASE ~blocked
      BY <1>1, <1>3, <2>1, <3>2 DEF MonitorTypes
    <3> QED
      BY <3>1, <3>2
  <2>5. ~blocked' => clearSpan' >= Dwell
    <3>1. clearSpan' >= clearFor'
      BY <2>1, <2>3
    <3>2. ASSUME clearFor' >= Dwell PROVE clearSpan' >= Dwell
      BY <1>1, <2>2, <3>1, <3>2 DEF MonitorTypes
    <3> QED
      BY <2>4, <3>2
  <2>6. sinceWarning' = quiet' /\ clearSpan' <= firstClear'
    BY <2>1, <2>2 DEF MonitorTypes
  <2> QED
    BY <2>2, <2>3, <2>4, <2>5, <2>6 DEF MonitorSound
<1>5. CASE UnclearScan(gap)
  <2>1. /\ clearFor' = cleared /\ blocked' = blocked
        /\ sinceWarning' = since /\ elapsed' = since /\ quiet' = since
        /\ firstClear' = first /\ clearSpan' = clearSpan
    BY <1>2, <1>5 DEF UnclearScan, Remember, since, cleared, first
  <2>2. MonitorTypes'
    BY <1>1, <1>2, <1>3, <2>1 DEF MonitorTypes
  <2> QED
    BY <1>1, <1>3, <2>1, <2>2 DEF MonitorTypes, MonitorSound
<1>6. CASE BlockedScan(gap)
  <2> DEFINE open == "monitor" \notin closed
             new == open /\ (age' < Grace \/ ~blocked)
             warns == new /\ age' >= Grace /\ since >= Cooldown
  <2>1. /\ blocked' = (blocked \/ open) /\ clearFor' = IF new THEN -1 ELSE cleared
        /\ sinceWarning' = IF warns THEN 0 ELSE since
        /\ elapsed' = since /\ quiet' = IF warns THEN 0 ELSE since
        /\ firstClear' = IF warns THEN -1 ELSE first
        /\ clearSpan' = IF warns THEN -1 ELSE clearSpan
    BY <1>2, <1>6 DEF BlockedScan, Remember, since, cleared, first
  <2>2. /\ warns => new
        /\ new => blocked'
        /\ ~new => (blocked' <=> blocked)
    <3>1. warns => new
      OBVIOUS
    <3>2. new => blocked'
      BY <2>1, Zenon
    <3>3. ~new => (blocked' <=> blocked)
      BY <2>1, Zenon
    <3> QED
      BY <3>1, <3>2, <3>3
  <2> HIDE DEF open
  <2>3. blocked' \in BOOLEAN
    BY <1>1, <2>1 DEF MonitorTypes
  <2> HIDE DEF new, warns
  <2>4. MonitorTypes'
    BY <1>1, <1>2, <1>3, <2>1, <2>3 DEF MonitorTypes
  <2>5. CASE new
    BY <1>1, <1>3, <2>1, <2>2, <2>4, <2>5 DEF MonitorTypes, MonitorSound
  <2>6. CASE ~new
    BY <1>1, <1>3, <2>1, <2>2, <2>4, <2>6 DEF MonitorTypes, MonitorSound
  <2> QED
    BY <2>4, <2>5, <2>6
<1> QED
  BY <1>4, <1>5, <1>6

LEMMA OnScanStep ==
    ASSUME IInv, OnScan
    PROVE  IInv'
<1>1. PICK gap \in Gaps :
          /\ todo["scan"] = <<>> /\ budget.scans > 0
          /\ budget' = [budget EXCEPT !.scans = @ - 1]
          /\ age' = Capped(age + gap, Grace)
          /\ ClearScan(gap) \/ BlockedScan(gap) \/ UnclearScan(gap)
          /\ UNCHANGED <<serial, closed, lights, moves, noises, late>>
  BY DEF OnScan
<1>2. MonitorTypes' /\ MonitorSound'
  BY <1>1, ScanTimes
<1>3. OtherTypes'
  <2>1. age' \in 0 .. Grace
    <3>1. age + gap \in Nat /\ Grace \in Nat
      BY TcpAssumption DEF IInv, TypeOK, OtherTypes
    <3> QED
      BY <1>1, <3>1, Cap
  <2> QED
    BY <1>1, <1>2, <2>1 DEF moves, noises, IInv, TypeOK, OtherTypes, MonitorTypes
<1>4. budget' \in [frames : Nat, scans : Nat, close : BOOLEAN]
  BY <1>1 DEF IInv, TypeOK, FrameTypes
<1>5. \/ Enter("scan", FrontWarning) /\ want' = <<"scene", On>>
      \/ UNCHANGED <<todo, begun, mixed, want>>
  BY <1>1 DEF ClearScan, UnclearScan, BlockedScan
<1>6. CASE Enter("scan", FrontWarning) /\ want' = <<"scene", On>>
  <2>1. "scan" \in Threads /\ Number \in Ids /\ serial \in BOOLEAN
    BY <1>6, TcpAssumption DEF Threads, Ids, Number, Enter, IInv, TypeOK, FrameTypes
  <2>2. /\ todo' \in [Threads -> Seq(Steps)] /\ begun' \in 0 .. MaxFrames
        /\ FramesApart' /\ MotionsSound' /\ StopIsHeard' /\ WorkersSound'
    BY <1>1, <1>6, <2>1, OtherHandlers, Enters DEF lights, moves
  <2>3. FrameTypes'
    BY <1>1, <1>4, <2>2, SameSteps DEF IInv, TypeOK, FrameTypes
  <2>4. LightTypes'
    <3>1. want' \in {"scene", "effect", "any"} \X (0 .. 6)
      BY <1>6 DEF On
    <3>2. mixed' \in BOOLEAN
      BY <1>6 DEF Enter, IInv, TypeOK, LightTypes
    <3> QED
      BY <1>1, <3>1, <3>2, SameSteps DEF lights, IInv, TypeOK, LightTypes
  <2> QED
    BY <1>2, <1>3, <2>2, <2>3, <2>4 DEF IInv, TypeOK
<1>7. CASE UNCHANGED <<todo, begun, mixed, want>>
  <2>1. FrameTypes' /\ FramesApart'
    <3>1. Steps' = Steps
      BY <1>1, SameSteps
    <3> QED
      BY <1>1, <1>4, <1>7, <3>1 DEF IInv, TypeOK, FrameTypes, FramesApart
  <2>2. LightTypes' /\ WorkersSound'
    <3>1. LightTypes'
      BY <1>1, <1>7, SameSteps DEF lights, IInv, TypeOK, LightTypes
    <3> QED
      BY <1>1, <1>7, <3>1 DEF lights, IInv, WorkersSound
  <2>3. MotionsSound' /\ StopIsHeard'
    BY <1>1, <1>7 DEF moves, IInv, MotionsSound, StopIsHeard
  <2> QED
    BY <1>2, <1>3, <2>1, <2>2, <2>3 DEF IInv, TypeOK
<1> QED
  BY <1>5, <1>6, <1>7

----------------------------------------------------------------------------
LEMMA Initially == Init => IInv
<1> SUFFICES ASSUME Init PROVE IInv
  OBVIOUS
<1>1. MaxFrames \in Nat /\ Cooldown \in Nat /\ Grace \in Nat /\ Dwell \in Nat
  BY TcpAssumption
<1>2. FrameTypes
  <2>1. todo \in [Threads -> Seq(Steps)]
    <3>1. <<>> \in Seq(Steps) /\ todo = [t \in Threads |-> <<>>]
      BY DEF Init
    <3> QED
      BY <3>1
  <2>2. budget \in [frames : Nat, scans : Nat, close : BOOLEAN]
    BY TcpAssumption DEF Init
  <2>3. serial \in BOOLEAN /\ closed = {} /\ begun = 0
    BY DEF Init
  <2>4. 0 \in 0 .. MaxFrames
    BY <1>1
  <2> QED
    BY <2>1, <2>2, <2>3, <2>4 DEF FrameTypes
<1>3. PICK one \in [scenes : Seq(0 .. 3), show : BOOLEAN, st : States, at : Nat,
                    out : Seq(PacketsOfLamps), told : BOOLEAN] :
          /\ worker = [w \in Ids |-> one]
          /\ one.st = "none" /\ one.out = <<>> /\ one.at = 0 /\ one.scenes = <<>>
  <2>1. /\ Over \in [scenes : Seq(0 .. 3), show : BOOLEAN, st : States, at : Nat,
                     out : Seq(PacketsOfLamps), told : BOOLEAN]
        /\ Over.out = <<>> /\ Over.at = 0 /\ Over.scenes = <<>>
    <3>1. <<>> \in Seq(0 .. 3) /\ <<>> \in Seq(PacketsOfLamps) /\ "done" \in States
      BY DEF States
    <3> QED
      BY <3>1 DEF Over
  <2> DEFINE one == [Over EXCEPT !.st = "none"]
  <2>2. worker = [w \in Ids |-> one]
    BY DEF Init
  <2>3. /\ one \in [scenes : Seq(0 .. 3), show : BOOLEAN, st : States, at : Nat,
                    out : Seq(PacketsOfLamps), told : BOOLEAN]
        /\ one.st = "none" /\ one.out = <<>> /\ one.at = 0 /\ one.scenes = <<>>
    <3>1. "none" \in States
      BY DEF States
    <3> QED
      BY <2>1, <3>1
  <2> HIDE DEF one
  <2> QED
    BY <2>2, <2>3
<1>4. LightTypes
  <2>1. worker \in [Ids -> [scenes : Seq(0 .. 3), show : BOOLEAN, st : States, at : Nat,
                           out : Seq(PacketsOfLamps), told : BOOLEAN]]
    BY <1>3
  <2>2. \A w \in Ids : /\ worker[w].at <= Len(worker[w].scenes)
                       /\ worker[w].out # <<>> <=> worker[w].st \in {"write", "dark"}
    <3>1. one.at <= Len(one.scenes)
      BY <1>3, EmptySeq
    <3> QED
      BY <1>3, <3>1
  <2>3. want \in {"scene", "effect", "any"} \X (0 .. 6)
    BY DEF Init, Off
  <2>4. IF serial THEN lamp \subseteq Sides ELSE lamp \in 0 .. 6
    BY DEF Init, Off
  <2>5. show \in 0 .. MaxFrames /\ effect \in 0 .. MaxFrames /\ mixed \in BOOLEAN /\ late \in BOOLEAN
    <3>1. show = 0 /\ effect = 0 /\ mixed = FALSE /\ late = FALSE
      BY DEF Init, None
    <3>2. 0 \in 0 .. MaxFrames
      BY <1>1
    <3> QED
      BY <3>1, <3>2
  <2> QED
    BY <2>1, <2>2, <2>3, <2>4, <2>5 DEF LightTypes
<1>5. OtherTypes
  BY <1>1 DEF Init, OtherTypes, None
<1>6. FramesApart
  <2> DEFINE of == [t \in Threads |-> 0]
  <2>1. of \in [Threads -> 0 .. begun]
    BY DEF Init
  <2>2. \A t \in Threads : todo[t] = <<>> /\ LeftOf(todo[t], of[t])
    BY DEF Init, LeftOf
  <2> QED
    BY <2>1, <2>2 DEF FramesApart
<1>7. MotionsSound /\ StopIsHeard
  <2>1. /\ motion = [m \in Ids |-> "none"] /\ slot = None /\ owed = {}
        /\ todo = [t \in Threads |-> <<>>]
    BY DEF Init
  <2> QED
    BY <2>1 DEF MotionsSound, StopIsHeard
<1>8. WorkersSound
  BY <1>3 DEF Init, WorkersSound
<1>9. MonitorSound
  BY <1>1 DEF Init, MonitorSound
<1> QED
  BY <1>2, <1>4, <1>5, <1>6, <1>7, <1>8, <1>9 DEF IInv, TypeOK

LEMMA Inductive == IInv /\ [Next]_vars => IInv'
<1> SUFFICES ASSUME IInv, [Next]_vars PROVE IInv'
  OBVIOUS
<1>1. ASSUME NEW c \in Conns, Receive(c) PROVE IInv'
  BY <1>1, ReceiveStep
<1>2. CASE Shutdown
  BY <1>2, ShutdownStep
<1>3. CASE CloseStep
  BY <1>3, CloseStepStep
<1>4. ASSUME NEW t \in Threads, Step(t) PROVE IInv'
  <2>1. CASE CheckShow(t)
    BY <2>1, CheckShowStep
  <2>2. CASE TakeShow(t) \/ TakeEffect(t)
    BY <2>2, TakeStep
  <2>3. CASE Join(t)
    BY <2>3, JoinStep
  <2>4. CASE Light(t)
    BY <2>4, LightStep
  <2>5. CASE Register(t)
    BY <2>5, RegisterStep
  <2>6. CASE Launch(t)
    BY <2>6, LaunchStep
  <2>7. CASE CancelMotion(t) \/ StartMotion(t) \/ RequestMotionStop(t)
    BY <2>7, MotionSteps
  <2>8. CASE Play(t) \/ Refuse(t)
    BY <2>8, PlayRefuseStep
  <2>9. CASE KillTrackers(t) \/ StartTracker(t)
    BY <2>9, TrackerStep
  <2> QED
    BY <1>4, <2>1, <2>2, <2>3, <2>4, <2>5, <2>6, <2>7, <2>8, <2>9 DEF Step
<1>5. ASSUME NEW w \in Ids, NextScene(w) \/ WritePacket(w) \/ ClearSlot(w) PROVE IInv'
  BY <1>5, NextSceneStep, WritePacketStep, ClearSlotStep
<1>6. CASE (\E m \in Ids : EndMotion(m)) \/ StopWorker
  BY <1>6, MotionEnds
<1>7. CASE OnScan
  BY <1>7, OnScanStep
<1>8. CASE UNCHANGED vars
  <2>1. UNCHANGED <<serial, closed, budget, begun, todo, show, effect, worker, lamp, slot, motion,
                    stopper, owed, displaced, trackers, blocked, age, sinceWarning, clearFor,
                    quiet, elapsed, firstClear, clearSpan, want, mixed, late>>
    BY <1>8 DEF vars, frame, lights, moves, noises, monitor, past, story
  <2>2. FrameTypes' /\ FramesApart'
    BY <2>1, SameSteps DEF IInv, TypeOK, FrameTypes, FramesApart
  <2>3. LightTypes' /\ OtherTypes'
    BY <2>1, SameSteps DEF IInv, TypeOK, LightTypes, OtherTypes
  <2>4. MotionsSound' /\ StopIsHeard' /\ WorkersSound' /\ MonitorSound'
    BY <2>1 DEF IInv, MotionsSound, StopIsHeard, WorkersSound, MonitorSound
  <2> QED
    BY <2>2, <2>3, <2>4 DEF IInv, TypeOK
<1> QED
  BY <1>1, <1>2, <1>3, <1>4, <1>5, <1>6, <1>7, <1>8 DEF Next

\* The inductive invariant holds: no frame number is at two threads, no pending
\* motion has begun, a motion that runs outside the slot was displaced, and the
\* monitor never takes the way for clear without having seen it clear for the
\* dwell.
THEOREM Invariance == Spec => []IInv
  BY Initially, Inductive, PTL DEF Spec

\* Every handler is made of the steps the bridge knows, and no step leaves the
\* lamps, the workers, the motions or the monitor in a state of another type.
THEOREM TypeCorrect == Spec => []TypeOK
<1>1. IInv => TypeOK
  BY DEF IInv
<1> QED
  BY <1>1, Invariance, PTL

\* _request_motion_stop drops a stop while a stop thread is alive; still every
\* motion that ran when a stop was accepted has been told to stop or is over,
\* or is in the slot with a stop thread on its way to it, or lost the slot to
\* a move that raced with it.
THEOREM StopHeard == Spec => []StopIsHeard
<1>1. IInv => StopIsHeard
  BY DEF IInv
<1> QED
  BY <1>1, Invariance, PTL

\* _on_scan warns only after the front was reported clear twice since the last
\* warning, the time of dwell apart, and not sooner than the cooldown after the
\* last warning.
THEOREM WarningsApart == Spec => WarningsAreApart
<1>1. ASSUME IInv, [Next]_vars, todo["scan"] = <<>>, todo'["scan"] # <<>>
      PROVE  clearSpan >= Dwell /\ elapsed' >= Cooldown
  <2>1. OnScan
    <3>1. ASSUME NEW c \in Conns, Receive(c) PROVE FALSE
      <4>1. c # "scan" /\ todo' = [todo EXCEPT ![c] = todo'[c]]
        BY <3>1, TcpAssumption DEF Receive, Enter, IInv, TypeOK, FrameTypes
      <4> QED
        BY <1>1, <4>1 DEF IInv, TypeOK, FrameTypes, Threads
    <3>2. CASE Shutdown
      BY <1>1, <3>2 DEF Shutdown, Enter, IInv, TypeOK, FrameTypes, Threads
    <3>3. CASE CloseStep
      BY <1>1, <3>3 DEF CloseStep, Then, IInv, TypeOK, FrameTypes, Threads
    <3>4. ASSUME NEW t \in Threads, Step(t) PROVE FALSE
      <4>1. todo[t] # <<>> /\ \E s : todo' = [todo EXCEPT ![t] = s]
        <5>1. todo[t] # <<>>
          BY <3>4 DEF Step, CheckShow, TakeShow, TakeEffect, Join, Light, Register, Launch,
                      CancelMotion, StartMotion, RequestMotionStop, Play, KillTrackers,
                      StartTracker, Refuse, At
        <5>2. (\E s : Then(t, s)) \/ Raise(t)
          BY <3>4 DEF Step, CheckShow, TakeShow, TakeEffect, Join, Light, Register, Launch,
                      CancelMotion, StartMotion, RequestMotionStop, Play, KillTrackers,
                      StartTracker, Refuse
        <5> QED
          BY <5>1, <5>2 DEF Then, Raise
      <4> QED
        BY <1>1, <4>1 DEF IInv, TypeOK, FrameTypes, Threads
    <3>5. ~UNCHANGED todo
      BY <1>1
    <3>6. ASSUME NEW w \in Ids, NextScene(w) \/ WritePacket(w) \/ ClearSlot(w) PROVE FALSE
      BY <3>5, <3>6 DEF NextScene, WritePacket, ClearSlot
    <3>7. ~(\E m \in Ids : EndMotion(m)) /\ ~StopWorker /\ ~UNCHANGED vars
      BY <3>5 DEF EndMotion, StopWorker, vars
    <3> QED
      BY <1>1, <3>1, <3>2, <3>3, <3>4, <3>6, <3>7 DEF Next
  <2>2. PICK gap \in Gaps : ClearScan(gap) \/ BlockedScan(gap) \/ UnclearScan(gap)
    BY <2>1 DEF OnScan
  <2>3. BlockedScan(gap)
    BY <1>1, <2>2 DEF ClearScan, UnclearScan
  <2>4. ~blocked /\ Capped(sinceWarning + gap, Cooldown) >= Cooldown
    <3> DEFINE new == "monitor" \notin closed /\ (age' < Grace \/ ~blocked)
               since == Capped(sinceWarning + gap, Cooldown)
    <3>1. new /\ age' >= Grace /\ since >= Cooldown
      BY <1>1, <2>3 DEF BlockedScan
    <3>2. age' \in Nat /\ Grace \in Nat
      BY <1>1, Inductive, TcpAssumption DEF IInv, TypeOK, OtherTypes
    <3>3. ~(age' < Grace)
      <4>1. age' >= Grace
        BY <3>1
      <4> QED
        BY <3>2, <4>1
    <3>4. ~blocked /\ since >= Cooldown
      <4> HIDE DEF since
      <4> QED
        BY <3>1, <3>3, Zenon
    <3> QED
      BY <3>4
  <2>5. elapsed' = Capped(sinceWarning + gap, Cooldown)
    BY <1>1, <2>3 DEF BlockedScan, Remember, IInv, MonitorSound
  <2>6. clearSpan >= Dwell
    BY <1>1, <2>4 DEF IInv, MonitorSound
  <2> QED
    BY <2>4, <2>5, <2>6
<1>2. IInv /\ [Next]_vars =>
          [\A t \in Threads :
              (t = "scan" /\ todo[t] = <<>> /\ todo'[t] # <<>>)
                 => clearSpan >= Dwell /\ elapsed' >= Cooldown]_vars
  BY <1>1
<1> QED
  BY <1>2, Invariance, PTL DEF Spec, WarningsAreApart

-----------------------------------------------------------------------------
(* The lights.  As long as no two threads are at the lights and no wait for *)
(* a worker runs out of time, what is left of the one frame that is about    *)
(* the lights leads to what was asked for.  What is said of a sequence of    *)
(* steps s is said with the lights v they begin with.                        *)

View == [serial |-> serial, begun |-> begun, show |-> show, effect |-> effect,
         worker |-> worker, lamp |-> lamp, want |-> want]

Has(s, names) == \E i \in 1 .. Len(s) : s[i][1] \in names
Before(s, i, names) == \E j \in 1 .. Len(s) : j < i /\ s[j][1] \in names
Beyond(s, i, names) == \E j \in 1 .. Len(s) : j > i /\ s[j][1] \in names

Stops == {"ifShow", "takeShow"}
Raising == {"fail", "play", "kill", "track"}
OffPacket(port) == IF port THEN <<"both", 0>> ELSE <<"publish", 0>>
OffStep(port) == <<"light", OffPacket(port)>>
Shown(port, x) == IF ~port THEN x
                  ELSE CASE x = Off -> {} [] x = On -> Sides
                         [] x = Left -> {"left"} [] x = Right -> {"right"}

\* The last step of a scene; two scenes are drawn on lamps that are off.
LastPacket(port, x) ==
    IF ~port THEN <<"publish", x>>
    ELSE CASE x = Off -> <<"both", 0>> [] x = On -> <<"both", 1>>
           [] x = Left -> <<"left", 1>> [] x = Right -> <<"right", 1>>
LastStep(port, x) == <<"light", LastPacket(port, x)>>
Split(port, x) == port /\ x \in {Left, Right}

\* Steps after which the lamps still show what they showed.
Harmless(step) == /\ step[1] \notin {"light", "takeShow", "takeEffect", "join", "newEffect"}
                  /\ step # <<"ifShow", FALSE>>
AllHarmless(s) == \A i \in 1 .. Len(s) : Harmless(s[i])

\* The last thing drawn is the step last, on dark lamps if it is split.
Draws(s, off, last, split, blank) ==
    \E k \in 1 .. Len(s) :
        /\ s[k] = last
        /\ \A j \in 1 .. Len(s) : j > k => Harmless(s[j])
        /\ split => IF k = 1 THEN blank ELSE s[k - 1] = off

\* What may raise an exception comes after all that is about the lights.
RaisesLate(s) ==
    \A i \in 1 .. Len(s) : s[i][1] \in Raising => ~Beyond(s, i, LightSteps)

JoinsFirst(s) == \A i \in 1 .. Len(s) : s[i][1] = "join" => i = 1

\* A new worker is launched next, and then the frame is done with the lights.
NewLast(s) ==
    \A i \in 1 .. Len(s) : s[i][1] \in New =>
        /\ i < Len(s) /\ s[i + 1] = <<"launch", s[i][2][1]>>
        /\ ~Beyond(s, i, LightSteps \ {"launch"})

\* The show is stopped before another worker begins or the lamps are lit.
Quelled(s, off, free) ==
    \A i \in 1 .. Len(s) : s[i][1] \in New \/ (s[i][1] = "light" /\ s[i] # off)
                              => free \/ Before(s, i, Stops)

\* The effect is stopped before another worker begins.
Freed(s, free) ==
    \A i \in 1 .. Len(s) : s[i][1] \in New => free \/ Before(s, i, {"takeEffect"})

\* A step may begin a worker if it was asked for and its number is not used.
Allowed(step, v) ==
    /\ step[1] \in New => v.worker[step[2][1]].st = "none" /\ step[2][1] <= v.begun
    /\ step[1] = "newShow" => v.want = <<"scene", Off>>
    /\ step[1] = "newEffect" => v.want[1] = "effect" /\ v.serial
AllAllowed(s, v) == \A i \in 1 .. Len(s) : Allowed(s[i], v)

Active(w, v) == v.worker[w].st \notin {"none", "done"}

\* One worker is active at most: it is in its slot, unless the thread at the
\* lights waits for it.
WorkerSlots(s, v) ==
    /\ \A w \in Ids : Active(w, v) => \/ w = IF v.worker[w].show THEN v.show ELSE v.effect
                                      \/ s # <<>> /\ s[1] = <<"join", w>>
    /\ \A w \in Ids : v.worker[w].st = "new" => s # <<>> /\ s[1] = <<"launch", w>>
    /\ v.show # None => v.worker[v.show].show /\ ~v.worker[v.show].told /\ Active(v.show, v)
    /\ v.effect # None => /\ ~v.worker[v.effect].show /\ ~v.worker[v.effect].told
                          /\ Active(v.effect, v)
    /\ \A w, x \in Ids : Active(w, v) /\ Active(x, v) => w = x

\* A show ends in the dark, and an effect only when it is told to.
WorkerStates(v) ==
    /\ \A w \in Ids : w > v.begun => v.worker[w].st = "none"
    /\ \A w \in Ids : v.worker[w].st = "dark" =>
           v.worker[w].show /\ v.worker[w].out = <<OffPacket(v.serial)>>
    /\ \A w \in Ids : v.worker[w].st = "clear" /\ ~v.worker[w].show => v.worker[w].told
    /\ v.show # None /\ v.worker[v.show].st = "clear" => v.lamp = Shown(v.serial, Off)

Order(s, v) ==
    /\ RaisesLate(s) /\ JoinsFirst(s) /\ NewLast(s) /\ AllAllowed(s, v)
    /\ Quelled(s, OffStep(v.serial), v.show = None) /\ Freed(s, v.effect = None)

\* What the thread has left makes the lamps what they were asked to be, or they
\* are that already, unless a show will turn them off.
Draw(s, v) ==
    \/ Draws(s, OffStep(v.serial), LastStep(v.serial, v.want[2]), Split(v.serial, v.want[2]),
             v.lamp = {})
    \/ AllHarmless(s) /\ (v.lamp = Shown(v.serial, v.want[2]) \/ v.show # None)

\* What is left leads to what was asked for.
Purpose(s, v) ==
    /\ v.want[1] \in {"scene", "any"} => v.effect = None \/ Has(s, {"takeEffect"})
    /\ v.want[1] = "effect" /\ v.serial =>
           Has(s, {"newEffect"}) \/ (v.effect # None /\ ~Has(s, {"takeEffect"}))
    /\ ~v.serial => v.effect = None
    /\ v.show # None => \/ v.want = <<"scene", Off>>
                        \/ Has(s, Stops) /\ (v.want[1] = "scene" => Has(s, {"light"}))
    /\ v.want[1] = "scene" => v.want[2] \in 0 .. 3 /\ Draw(s, v)

Sound(s, v) == WorkerSlots(s, v) /\ WorkerStates(v) /\ Order(s, v) /\ Purpose(s, v)

\* The lights as they may be.
Lights(v) ==
    /\ v.serial \in BOOLEAN /\ v.begun \in Nat
    /\ v.show \in 0 .. MaxFrames /\ v.effect \in 0 .. MaxFrames
    /\ v.worker \in [Ids -> [scenes : Seq(0 .. 3), show : BOOLEAN, st : States, at : Nat,
                             out : Seq(PacketsOfLamps), told : BOOLEAN]]
    /\ \A w \in Ids : v.worker[w].out # <<>> <=> v.worker[w].st \in {"write", "dark"}
    /\ IF v.serial THEN v.lamp \subseteq Sides ELSE v.lamp \in 0 .. 6
    /\ v.want \in {"scene", "effect", "any"} \X (0 .. 6)

Quiet == "serial" \notin closed /\ ~mixed /\ ~late
Alone(t) == \A u \in Threads \ {t} : ~AtLights(u)

LightsSound == Quiet => /\ \E t \in Threads : Alone(t)
                        /\ \A t \in Threads : Alone(t) => Sound(todo[t], View)

\* A step before others.
LEMMA Prefixed ==
    ASSUME NEW a \in Steps, NEW r \in Seq(Steps)
    PROVE  LET q == <<a>> \o r
           IN /\ q \in Seq(Steps) /\ Len(q) = Len(r) + 1 /\ q # <<>> /\ q[1] = a /\ Tail(q) = r
              /\ \A i \in 1 .. Len(r) : i + 1 \in 1 .. Len(q) /\ q[i + 1] = r[i]
              /\ \A i \in 1 .. Len(q) : i # 1 => i - 1 \in 1 .. Len(r) /\ q[i] = r[i - 1]
<1> DEFINE q == <<a>> \o r
<1>1. /\ q \in Seq(Steps) /\ Len(q) = Len(r) + 1 /\ Len(r) \in Nat
      /\ \A i \in 1 .. Len(q) : q[i] = IF i <= 1 THEN a ELSE r[i - 1]
  OBVIOUS
<1>2. q # <<>> /\ q[1] = a
  BY <1>1
<1>3. \A i \in 1 .. Len(r) : i + 1 \in 1 .. Len(q) /\ q[i + 1] = r[i]
  BY <1>1
<1>4. \A i \in 1 .. Len(q) : i # 1 => i - 1 \in 1 .. Len(r) /\ q[i] = r[i - 1]
  BY <1>1
<1>5. Tail(q) = r
  <2> HIDE DEF q
  <2>1. /\ Tail(q) \in Seq(Steps) /\ Len(Tail(q)) = Len(q) - 1
        /\ \A i \in 1 .. Len(Tail(q)) : i + 1 \in 1 .. Len(q) /\ Tail(q)[i] = q[i + 1]
    BY <1>1, <1>2, Shorter
  <2>2. Len(Tail(q)) = Len(r)
    BY <1>1, <2>1
  <2>3. \A i \in 1 .. Len(r) : Tail(q)[i] = r[i]
    BY <1>3, <2>1, <2>2
  <2> QED
    BY <2>1, <2>2, <2>3, SeqEqual
<1> QED
  BY <1>1, <1>2, <1>3, <1>4, <1>5

\* Each sequence of steps is its first one before the others.
LEMMA FirstAndRest ==
    ASSUME NEW s \in Seq(Steps), s # <<>>
    PROVE  s[1] \in Steps /\ Tail(s) \in Seq(Steps) /\ s = <<s[1]>> \o Tail(s)
<1> DEFINE q == <<s[1]>> \o Tail(s)
<1>1. /\ Tail(s) \in Seq(Steps) /\ s[1] \in Steps /\ Len(Tail(s)) = Len(s) - 1 /\ Len(s) \in Nat
      /\ \A i \in 1 .. Len(Tail(s)) : i + 1 \in 1 .. Len(s) /\ Tail(s)[i] = s[i + 1]
  BY Shorter
<1>2. /\ q \in Seq(Steps) /\ Len(q) = Len(Tail(s)) + 1 /\ q[1] = s[1]
      /\ \A i \in 1 .. Len(q) : i # 1 => i - 1 \in 1 .. Len(Tail(s)) /\ q[i] = Tail(s)[i - 1]
  BY <1>1, Prefixed
<1> HIDE DEF q
<1>3. Len(q) = Len(s)
  BY <1>1, <1>2
<1>4. \A i \in 1 .. Len(s) : q[i] = s[i]
  <2> SUFFICES ASSUME NEW i \in 1 .. Len(s), i # 1
               PROVE  q[i] = s[i]
    BY <1>2
  <2>1. i - 1 \in 1 .. Len(Tail(s)) /\ q[i] = Tail(s)[i - 1] /\ (i - 1) + 1 = i
    BY <1>2, <1>3
  <2> QED
    BY <1>1, <2>1
<1>5. s = q
  BY <1>2, <1>3, <1>4, SeqEqual
<1> QED
  BY <1>1, <1>5 DEF q

\* What is said of a sequence, in terms of its first step and the others.
LEMMA HasPrefixed ==
    ASSUME NEW a \in Steps, NEW r \in Seq(Steps), NEW N
    PROVE  Has(<<a>> \o r, N) <=> a[1] \in N \/ Has(r, N)
<1> DEFINE q == <<a>> \o r
<1>1. /\ Len(q) = Len(r) + 1 /\ Len(r) \in Nat /\ q[1] = a
      /\ \A i \in 1 .. Len(r) : i + 1 \in 1 .. Len(q) /\ q[i + 1] = r[i]
      /\ \A i \in 1 .. Len(q) : i # 1 => i - 1 \in 1 .. Len(r) /\ q[i] = r[i - 1]
  BY Prefixed
<1> HIDE DEF q
<1>2. 1 \in 1 .. Len(q)
  BY <1>1
<1>3. Has(q, N) => a[1] \in N \/ Has(r, N)
  BY <1>1 DEF Has
<1>4. a[1] \in N => Has(q, N)
  BY <1>1, <1>2 DEF Has
<1>5. Has(r, N) => Has(q, N)
  BY <1>1 DEF Has
<1> QED
  BY <1>3, <1>4, <1>5 DEF q

LEMMA OrderPrefixed ==
    ASSUME NEW a \in Steps, NEW r \in Seq(Steps), NEW N
    PROVE  LET q == <<a>> \o r
           IN /\ Beyond(q, 1, N) <=> Has(r, N)
              /\ \A i \in 1 .. Len(r) : /\ Beyond(q, i + 1, N) <=> Beyond(r, i, N)
                                        /\ Before(q, i + 1, N) <=> a[1] \in N \/ Before(r, i, N)
              /\ ~Before(q, 1, N)
<1> DEFINE q == <<a>> \o r
<1>1. /\ Len(q) = Len(r) + 1 /\ Len(r) \in Nat /\ q[1] = a
      /\ \A i \in 1 .. Len(r) : i + 1 \in 1 .. Len(q) /\ q[i + 1] = r[i]
      /\ \A i \in 1 .. Len(q) : i # 1 => i - 1 \in 1 .. Len(r) /\ q[i] = r[i - 1]
  BY Prefixed
<1> HIDE DEF q
<1>2. 1 \in 1 .. Len(q) /\ \A i \in 1 .. Len(q) : i = 1 \/ i > 1
  BY <1>1
<1>3. Beyond(q, 1, N) <=> Has(r, N)
  <2>1. Beyond(q, 1, N) => Has(r, N)
    BY <1>1 DEF Beyond, Has
  <2>2. Has(r, N) => Beyond(q, 1, N)
    <3> SUFFICES ASSUME NEW i \in 1 .. Len(r), r[i][1] \in N
                 PROVE  Beyond(q, 1, N)
      BY DEF Has
    <3>1. i + 1 > 1 /\ i + 1 \in 1 .. Len(q) /\ q[i + 1][1] \in N
      BY <1>1
    <3> QED
      BY <3>1 DEF Beyond
  <2> QED
    BY <2>1, <2>2
<1>4. ASSUME NEW i \in 1 .. Len(r)
      PROVE  Beyond(q, i + 1, N) <=> Beyond(r, i, N)
  <2>1. ASSUME NEW j \in 1 .. Len(q), j > i + 1, q[j][1] \in N
        PROVE  Beyond(r, i, N)
    <3>1. j - 1 \in 1 .. Len(r) /\ j - 1 > i /\ r[j - 1][1] \in N
      BY <1>1, <2>1
    <3> QED
      BY <3>1 DEF Beyond
  <2>2. ASSUME NEW j \in 1 .. Len(r), j > i, r[j][1] \in N
        PROVE  Beyond(q, i + 1, N)
    <3>1. j + 1 \in 1 .. Len(q) /\ j + 1 > i + 1 /\ q[j + 1][1] \in N
      BY <1>1, <2>2
    <3> QED
      BY <3>1 DEF Beyond
  <2> QED
    BY <2>1, <2>2 DEF Beyond
<1>5. ASSUME NEW i \in 1 .. Len(r)
      PROVE  Before(q, i + 1, N) <=> a[1] \in N \/ Before(r, i, N)
  <2>1. ASSUME NEW j \in 1 .. Len(q), j < i + 1, q[j][1] \in N, j # 1
        PROVE  Before(r, i, N)
    <3>1. j - 1 \in 1 .. Len(r) /\ j - 1 < i /\ r[j - 1][1] \in N
      BY <1>1, <2>1
    <3> QED
      BY <3>1 DEF Before
  <2>2. ASSUME NEW j \in 1 .. Len(r), j < i, r[j][1] \in N
        PROVE  Before(q, i + 1, N)
    <3>1. j + 1 \in 1 .. Len(q) /\ j + 1 < i + 1 /\ q[j + 1][1] \in N
      BY <1>1, <2>2
    <3> QED
      BY <3>1 DEF Before
  <2>3. a[1] \in N => Before(q, i + 1, N)
    <3>1. 1 < i + 1
      OBVIOUS
    <3> QED
      BY <1>1, <1>2, <3>1 DEF Before
  <2> QED
    BY <1>1, <2>1, <2>2, <2>3 DEF Before
<1>6. ~Before(q, 1, N)
  BY <1>1 DEF Before
<1> QED
  BY <1>3, <1>4, <1>5, <1>6 DEF q

\* A condition on every step holds of the first and of the others.
LEMMA EachPrefixed ==
    ASSUME NEW a \in Steps, NEW r \in Seq(Steps), NEW v
    PROVE  /\ AllHarmless(<<a>> \o r) <=> Harmless(a) /\ AllHarmless(r)
           /\ AllAllowed(<<a>> \o r, v) <=> Allowed(a, v) /\ AllAllowed(r, v)
<1> DEFINE q == <<a>> \o r
<1>1. /\ Len(q) = Len(r) + 1 /\ Len(r) \in Nat /\ q[1] = a
      /\ \A i \in 1 .. Len(r) : i + 1 \in 1 .. Len(q) /\ q[i + 1] = r[i]
      /\ \A i \in 1 .. Len(q) : i # 1 => i - 1 \in 1 .. Len(r) /\ q[i] = r[i - 1]
  BY Prefixed
<1> HIDE DEF q
<1>2. 1 \in 1 .. Len(q)
  BY <1>1
<1>3. AllHarmless(q) <=> Harmless(a) /\ AllHarmless(r)
  <2>1. AllHarmless(q) => Harmless(a) /\ AllHarmless(r)
    BY <1>1, <1>2 DEF AllHarmless
  <2>2. Harmless(a) /\ AllHarmless(r) => AllHarmless(q)
    BY <1>1, <1>2 DEF AllHarmless
  <2> QED
    BY <2>1, <2>2
<1>4. AllAllowed(q, v) <=> Allowed(a, v) /\ AllAllowed(r, v)
  <2>1. AllAllowed(q, v) => Allowed(a, v) /\ AllAllowed(r, v)
    BY <1>1, <1>2 DEF AllAllowed
  <2>2. Allowed(a, v) /\ AllAllowed(r, v) => AllAllowed(q, v)
    BY <1>1, <1>2 DEF AllAllowed
  <2> QED
    BY <2>1, <2>2
<1> QED
  BY <1>3, <1>4 DEF q


LEMMA RaisesPrefixed ==
    ASSUME NEW a \in Steps, NEW r \in Seq(Steps)
    PROVE  /\ RaisesLate(<<a>> \o r) <=> RaisesLate(r) /\ (a[1] \in Raising => ~Has(r, LightSteps))
           /\ JoinsFirst(<<a>> \o r) <=> ~Has(r, {"join"})
<1> DEFINE q == <<a>> \o r
<1>1. /\ Len(q) = Len(r) + 1 /\ Len(r) \in Nat /\ q[1] = a
      /\ \A i \in 1 .. Len(r) : i + 1 \in 1 .. Len(q) /\ q[i + 1] = r[i]
      /\ \A i \in 1 .. Len(q) : i # 1 => i - 1 \in 1 .. Len(r) /\ q[i] = r[i - 1]
  BY Prefixed
<1>2. /\ Beyond(q, 1, LightSteps) <=> Has(r, LightSteps)
      /\ \A i \in 1 .. Len(r) : Beyond(q, i + 1, LightSteps) <=> Beyond(r, i, LightSteps)
  BY OrderPrefixed
<1> HIDE DEF q
<1>3. 1 \in 1 .. Len(q)
  BY <1>1
<1>4. RaisesLate(q) <=> RaisesLate(r) /\ (a[1] \in Raising => ~Has(r, LightSteps))
  <2>1. RaisesLate(q) => RaisesLate(r) /\ (a[1] \in Raising => ~Has(r, LightSteps))
    BY <1>1, <1>2, <1>3 DEF RaisesLate, Raising
  <2>2. ASSUME RaisesLate(r), a[1] \in Raising => ~Has(r, LightSteps),
               NEW i \in 1 .. Len(q), q[i][1] \in Raising, Beyond(q, i, LightSteps)
        PROVE  FALSE
    <3>1. i # 1
      BY <1>1, <1>2, <2>2
    <3>2. i - 1 \in 1 .. Len(r) /\ q[i] = r[i - 1] /\ (i - 1) + 1 = i
      BY <1>1, <3>1
    <3>3. Beyond(r, i - 1, LightSteps)
      BY <1>2, <2>2, <3>2
    <3> QED
      BY <2>2, <3>2, <3>3 DEF RaisesLate, Raising
  <2> QED
    BY <2>1, <2>2 DEF RaisesLate, Raising
<1>5. JoinsFirst(q) <=> ~Has(r, {"join"})
  <2>1. ASSUME JoinsFirst(q), NEW i \in 1 .. Len(r), r[i][1] = "join"
        PROVE  FALSE
    <3>1. i + 1 \in 1 .. Len(q) /\ q[i + 1][1] = "join" /\ i + 1 # 1
      BY <1>1, <2>1
    <3> QED
      BY <2>1, <3>1 DEF JoinsFirst
  <2>2. ~Has(r, {"join"}) => JoinsFirst(q)
    BY <1>1 DEF Has, JoinsFirst
  <2> QED
    BY <2>1, <2>2 DEF Has
<1> QED
  BY <1>4, <1>5 DEF q

LEMMA NewPrefixed ==
    ASSUME NEW a \in Steps, NEW r \in Seq(Steps)
    PROVE  NewLast(<<a>> \o r) <=>
               /\ NewLast(r)
               /\ a[1] \in New => /\ r # <<>> /\ r[1] = <<"launch", a[2][1]>>
                                  /\ ~Has(r, LightSteps \ {"launch"})
<1> DEFINE q == <<a>> \o r
           M == LightSteps \ {"launch"}
           First == a[1] \in New => r # <<>> /\ r[1] = <<"launch", a[2][1]>> /\ ~Has(r, M)
<1>1. /\ Len(q) = Len(r) + 1 /\ Len(r) \in Nat /\ q[1] = a
      /\ \A i \in 1 .. Len(r) : i + 1 \in 1 .. Len(q) /\ q[i + 1] = r[i]
      /\ \A i \in 1 .. Len(q) : i # 1 => i - 1 \in 1 .. Len(r) /\ q[i] = r[i - 1]
  BY Prefixed
<1>2. /\ Beyond(q, 1, M) <=> Has(r, M)
      /\ \A i \in 1 .. Len(r) : Beyond(q, i + 1, M) <=> Beyond(r, i, M)
  BY OrderPrefixed
<1>3. r # <<>> <=> 1 \in 1 .. Len(r)
  BY <1>1, EmptySeq
<1> HIDE DEF q, M
<1>4. /\ 1 \in 1 .. Len(q) /\ 1 < Len(q) <=> 1 \in 1 .. Len(r)
      /\ 1 \in 1 .. Len(r) => q[1 + 1] = r[1]
  BY <1>1
<1>5. ASSUME NewLast(q), a[1] \in New
      PROVE  r # <<>> /\ r[1] = <<"launch", a[2][1]>> /\ ~Has(r, M)
  <2>1. q[1][1] \in New /\ 1 \in 1 .. Len(q)
    BY <1>1, <1>4, <1>5
  <2>2. 1 < Len(q) /\ q[1 + 1] = <<"launch", q[1][2][1]>> /\ ~Beyond(q, 1, M)
    BY <1>5, <2>1 DEF NewLast, M
  <2>3. 1 \in 1 .. Len(r)
    BY <1>4, <2>2
  <2> QED
    BY <1>1, <1>2, <1>3, <1>4, <2>2, <2>3
<1>6. ASSUME NewLast(q), NEW i \in 1 .. Len(r), r[i][1] \in New
      PROVE  i < Len(r) /\ r[i + 1] = <<"launch", r[i][2][1]>> /\ ~Beyond(r, i, M)
  <2>1. i + 1 \in 1 .. Len(q) /\ q[i + 1] = r[i] /\ q[i + 1][1] \in New
    BY <1>1, <1>6
  <2>2. i + 1 < Len(q) /\ q[(i + 1) + 1] = <<"launch", r[i][2][1]>> /\ ~Beyond(q, i + 1, M)
    BY <1>6, <2>1 DEF NewLast, M
  <2>3. i < Len(r) /\ i + 1 \in 1 .. Len(r)
    BY <1>1, <2>2
  <2> QED
    BY <1>1, <1>2, <2>2, <2>3
<1>7. ASSUME NewLast(r), First, NEW i \in 1 .. Len(q), q[i][1] \in New
      PROVE  i < Len(q) /\ q[i + 1] = <<"launch", q[i][2][1]>> /\ ~Beyond(q, i, M)
  <2>1. CASE i = 1
    BY <1>1, <1>2, <1>3, <1>4, <1>7, <2>1
  <2>2. CASE i # 1
    <3> DEFINE k == i - 1
    <3>1. k \in 1 .. Len(r) /\ q[i] = r[k] /\ k + 1 = i
      BY <1>1, <2>2
    <3> HIDE DEF k
    <3>2. k < Len(r) /\ r[k + 1] = <<"launch", r[k][2][1]>> /\ ~Beyond(r, k, M)
      BY <1>7, <3>1 DEF NewLast, M
    <3>3. k + 1 \in 1 .. Len(r) /\ i < Len(q)
      BY <1>1, <3>1, <3>2
    <3>4. q[(k + 1) + 1] = r[k + 1]
      BY <1>1, <3>3
    <3> QED
      BY <1>2, <3>1, <3>2, <3>3, <3>4
  <2> QED
    BY <2>1, <2>2
<1>8. NewLast(q) <=> NewLast(r) /\ First
  <2>1. NewLast(q) => NewLast(r)
    BY <1>6 DEF NewLast, M
  <2>2. NewLast(r) /\ First => NewLast(q)
    BY <1>7 DEF NewLast, M
  <2> QED
    BY <1>5, <2>1, <2>2
<1> QED
  BY <1>8 DEF q, M

LEMMA QuelledPrefixed ==
    ASSUME NEW a \in Steps, NEW r \in Seq(Steps), NEW off, NEW free \in BOOLEAN
    PROVE  /\ Quelled(<<a>> \o r, off, free) <=>
                  /\ a[1] \in New \/ (a[1] = "light" /\ a # off) => free
                  /\ Quelled(r, off, free \/ a[1] \in Stops)
           /\ Freed(<<a>> \o r, free) <=>
                  /\ a[1] \in New => free
                  /\ Freed(r, free \/ a[1] = "takeEffect")
<1> DEFINE q == <<a>> \o r
           risky(step) == step[1] \in New \/ (step[1] = "light" /\ step # off)
<1>1. /\ Len(q) = Len(r) + 1 /\ Len(r) \in Nat /\ q[1] = a
      /\ \A i \in 1 .. Len(r) : i + 1 \in 1 .. Len(q) /\ q[i + 1] = r[i]
      /\ \A i \in 1 .. Len(q) : i # 1 => i - 1 \in 1 .. Len(r) /\ q[i] = r[i - 1]
  BY Prefixed
<1>2. \A N : /\ ~Before(q, 1, N)
             /\ \A i \in 1 .. Len(r) : Before(q, i + 1, N) <=> a[1] \in N \/ Before(r, i, N)
  BY OrderPrefixed
<1> HIDE DEF q, risky
<1>3. 1 \in 1 .. Len(q) /\ \A i \in 1 .. Len(q) : i # 1 => (i - 1) + 1 = i
  BY <1>1
<1>4. ASSUME NEW N
      PROVE  (\A i \in 1 .. Len(q) : risky(q[i]) => free \/ Before(q, i, N)) <=>
                 /\ risky(a) => free
                 /\ \A i \in 1 .. Len(r) : risky(r[i]) => (free \/ a[1] \in N) \/ Before(r, i, N)
  <2>1. ASSUME \A i \in 1 .. Len(q) : risky(q[i]) => free \/ Before(q, i, N)
        PROVE  /\ risky(a) => free
               /\ \A i \in 1 .. Len(r) : risky(r[i]) => (free \/ a[1] \in N) \/ Before(r, i, N)
    BY <1>1, <1>2, <1>3, <2>1
  <2>2. ASSUME risky(a) => free,
               \A i \in 1 .. Len(r) : risky(r[i]) => (free \/ a[1] \in N) \/ Before(r, i, N),
               NEW i \in 1 .. Len(q), risky(q[i])
        PROVE  free \/ Before(q, i, N)
    BY <1>1, <1>2, <1>3, <2>2
  <2> QED
    BY <2>1, <2>2
<1>5. ASSUME NEW N
      PROVE  (\A i \in 1 .. Len(q) : q[i][1] \in New => free \/ Before(q, i, N)) <=>
                 /\ a[1] \in New => free
                 /\ \A i \in 1 .. Len(r) : r[i][1] \in New => (free \/ a[1] \in N) \/ Before(r, i, N)
  <2>1. ASSUME \A i \in 1 .. Len(q) : q[i][1] \in New => free \/ Before(q, i, N)
        PROVE  /\ a[1] \in New => free
               /\ \A i \in 1 .. Len(r) : r[i][1] \in New => (free \/ a[1] \in N) \/ Before(r, i, N)
    BY <1>1, <1>2, <1>3, <2>1
  <2>2. ASSUME a[1] \in New => free,
               \A i \in 1 .. Len(r) : r[i][1] \in New => (free \/ a[1] \in N) \/ Before(r, i, N),
               NEW i \in 1 .. Len(q), q[i][1] \in New
        PROVE  free \/ Before(q, i, N)
    BY <1>1, <1>2, <1>3, <2>2
  <2> QED
    BY <2>1, <2>2
<1>6. Quelled(q, off, free) <=> (risky(a) => free) /\ Quelled(r, off, free \/ a[1] \in Stops)
  BY <1>4 DEF Quelled, risky
<1>7. Freed(q, free) <=> (a[1] \in New => free) /\ Freed(r, free \/ a[1] = "takeEffect")
  <2>1. a[1] \in {"takeEffect"} <=> a[1] = "takeEffect"
    OBVIOUS
  <2> QED
    BY <1>5, <2>1 DEF Freed
<1> QED
  BY <1>6, <1>7 DEF q, risky

LEMMA DrawsPrefixed ==
    ASSUME NEW a \in Steps, NEW r \in Seq(Steps), NEW off, NEW last, NEW split \in BOOLEAN,
           NEW blank \in BOOLEAN
    PROVE  Draws(<<a>> \o r, off, last, split, blank) <=>
               \/ a = last /\ AllHarmless(r) /\ (split => blank)
               \/ Draws(r, off, last, split, a = off)
<1> DEFINE q == <<a>> \o r
<1>1. /\ Len(q) = Len(r) + 1 /\ Len(r) \in Nat /\ q[1] = a
      /\ \A i \in 1 .. Len(r) : i + 1 \in 1 .. Len(q) /\ q[i + 1] = r[i]
      /\ \A i \in 1 .. Len(q) : i # 1 => i - 1 \in 1 .. Len(r) /\ q[i] = r[i - 1]
  BY Prefixed
<1> HIDE DEF q
<1>2. 1 \in 1 .. Len(q)
  BY <1>1
<1>3. \A k \in 1 .. Len(q) : k # 1 => (k - 1) + 1 = k /\ k \in Int
  OBVIOUS
\* At the first step, and at a later one.
<1>4. (\A j \in 1 .. Len(q) : j > 1 => Harmless(q[j])) <=> AllHarmless(r)
  <2>1. \A j \in 1 .. Len(q) : j > 1 <=> j # 1
    OBVIOUS
  <2>2. \A j \in 1 .. Len(r) : j + 1 # 1
    OBVIOUS
  <2> QED
    BY <1>1, <2>1, <2>2 DEF AllHarmless
<1>5. ASSUME NEW k \in 1 .. Len(r)
      PROVE  /\ (\A j \in 1 .. Len(q) : j > k + 1 => Harmless(q[j])) <=>
                     \A j \in 1 .. Len(r) : j > k => Harmless(r[j])
             /\ IF k = 1 THEN q[(k + 1) - 1] = a ELSE q[(k + 1) - 1] = r[k - 1]
  <2>1. \A j \in 1 .. Len(q) : j > k + 1 => j # 1 /\ j - 1 > k
    OBVIOUS
  <2>2. \A j \in 1 .. Len(r) : j > k => j + 1 > k + 1
    OBVIOUS
  <2>3. /\ (k + 1) - 1 = k /\ k \in 1 .. Len(q)
    BY <1>1
  <2> QED
    BY <1>1, <2>1, <2>2, <2>3
<1>6. ASSUME Draws(q, off, last, split, blank)
      PROVE  \/ a = last /\ AllHarmless(r) /\ (split => blank)
             \/ Draws(r, off, last, split, a = off)
  <2>1. PICK k \in 1 .. Len(q) :
            /\ q[k] = last
            /\ \A j \in 1 .. Len(q) : j > k => Harmless(q[j])
            /\ split => IF k = 1 THEN blank ELSE q[k - 1] = off
    BY <1>6 DEF Draws
  <2>2. CASE k = 1
    BY <1>1, <1>4, <2>1, <2>2
  <2>3. CASE k # 1
    <3> DEFINE m == k - 1
    <3>1. m \in 1 .. Len(r) /\ q[k] = r[m] /\ m + 1 = k
      BY <1>1, <1>3, <2>3
    <3> HIDE DEF m
    <3>2. \A j \in 1 .. Len(r) : j > m => Harmless(r[j])
      BY <1>5, <2>1, <3>1
    <3>3. IF m = 1 THEN q[k - 1] = a ELSE q[k - 1] = r[m - 1]
      BY <1>5, <3>1
    <3>4. split => IF m = 1 THEN a = off ELSE r[m - 1] = off
      BY <2>1, <2>3, <3>3
    <3> QED
      BY <2>1, <3>1, <3>2, <3>4 DEF Draws
  <2> QED
    BY <2>2, <2>3
<1>7. ASSUME a = last, AllHarmless(r), split => blank
      PROVE  Draws(q, off, last, split, blank)
  BY <1>1, <1>2, <1>4, <1>7 DEF Draws
<1>8. ASSUME Draws(r, off, last, split, a = off)
      PROVE  Draws(q, off, last, split, blank)
  <2>1. PICK m \in 1 .. Len(r) :
            /\ r[m] = last
            /\ \A j \in 1 .. Len(r) : j > m => Harmless(r[j])
            /\ split => IF m = 1 THEN a = off ELSE r[m - 1] = off
    BY <1>8 DEF Draws
  <2>2. m + 1 \in 1 .. Len(q) /\ q[m + 1] = last /\ m + 1 # 1
    BY <1>1, <2>1
  <2>3. \A j \in 1 .. Len(q) : j > m + 1 => Harmless(q[j])
    BY <1>5, <2>1
  <2>4. split => q[(m + 1) - 1] = off
    BY <1>5, <2>1
  <2> QED
    BY <2>2, <2>3, <2>4 DEF Draws
<1> QED
  BY <1>6, <1>7, <1>8 DEF q

\* A sequence without steps about the lights.
LEMMA WithoutLights ==
    ASSUME NEW s \in Seq(Steps), ~Has(s, LightSteps)
    PROVE  /\ \A N \in SUBSET LightSteps : ~Has(s, N)
           /\ RaisesLate(s) /\ JoinsFirst(s) /\ NewLast(s) /\ AllHarmless(s)
           /\ \A v : AllAllowed(s, v)
           /\ \A off, free : Quelled(s, off, free) /\ Freed(s, free)
           /\ \A off, last, split, blank : last[1] = "light" => ~Draws(s, off, last, split, blank)
           /\ s # <<>> => s[1][1] \notin LightSteps
<1>1. \A i \in 1 .. Len(s) : s[i][1] \notin LightSteps
  BY DEF Has
<1>2. \A N \in SUBSET LightSteps : ~Has(s, N)
  BY <1>1 DEF Has
<1>3. RaisesLate(s) /\ JoinsFirst(s) /\ NewLast(s)
  <2>1. RaisesLate(s)
    BY <1>1 DEF RaisesLate, Beyond
  <2>2. \A i \in 1 .. Len(s) : s[i][1] # "join" /\ s[i][1] \notin New
    BY <1>1 DEF LightSteps, New
  <2> QED
    BY <2>1, <2>2 DEF JoinsFirst, NewLast
<1>4. AllHarmless(s)
  <2>1. \A step : step[1] \notin LightSteps => Harmless(step)
    <3>1. <<"ifShow", FALSE>>[1] = "ifShow"
      OBVIOUS
    <3> QED
      BY <3>1, Zenon DEF Harmless, LightSteps
  <2> QED
    BY <1>1, <2>1 DEF AllHarmless
<1>5. \A v : AllAllowed(s, v)
  BY <1>1 DEF AllAllowed, Allowed, LightSteps, New
<1>6. \A off, free : Quelled(s, off, free) /\ Freed(s, free)
  <2>1. \A i \in 1 .. Len(s) : s[i][1] # "light" /\ s[i][1] \notin New
    BY <1>1 DEF LightSteps, New
  <2> QED
    BY <2>1 DEF Quelled, Freed
<1>7. \A off, last, split, blank : last[1] = "light" => ~Draws(s, off, last, split, blank)
  <2>1. \A i \in 1 .. Len(s) : s[i][1] # "light"
    BY <1>1 DEF LightSteps
  <2> QED
    BY <2>1 DEF Draws
<1>8. s # <<>> => s[1][1] \notin LightSteps
  BY <1>1, Shorter
<1> QED
  BY <1>2, <1>3, <1>4, <1>5, <1>6, <1>7, <1>8

LEMMA LightStepsAre ==
    /\ {"light"} \subseteq LightSteps /\ {"takeEffect"} \subseteq LightSteps
    /\ {"newEffect"} \subseteq LightSteps /\ {"join"} \subseteq LightSteps
    /\ Stops \subseteq LightSteps /\ New \subseteq LightSteps
  BY DEF LightSteps, Stops, New

LEMMA LightNames ==
    \A port, x : OffStep(port)[1] = "light" /\ LastStep(port, x)[1] = "light"
  BY DEF OffStep, LastStep

\* A thread that has no step about the lights left may do and leave what it
\* wants.
LEMMA FreeOfLights ==
    ASSUME NEW s \in Seq(Steps), ~Has(s, LightSteps), NEW r \in Seq(Steps), ~Has(r, LightSteps),
           NEW v, Sound(s, v)
    PROVE  Sound(r, v)
<1> DEFINE off == OffStep(v.serial)
           last == LastStep(v.serial, v.want[2])
<1>1. /\ \A N \in SUBSET LightSteps : ~Has(s, N)
      /\ \A o, l, split, blank : l[1] = "light" => ~Draws(s, o, l, split, blank)
      /\ s # <<>> => s[1][1] \notin LightSteps
  BY WithoutLights
<1>2. /\ \A N \in SUBSET LightSteps : ~Has(r, N)
      /\ RaisesLate(r) /\ JoinsFirst(r) /\ NewLast(r) /\ AllHarmless(r)
      /\ AllAllowed(r, v)
      /\ \A o, free : Quelled(r, o, free) /\ Freed(r, free)
  BY WithoutLights
<1>3. WorkerSlots(r, v)
  <2>1. \A w : ~(s # <<>> /\ s[1] = <<"join", w>>) /\ ~(s # <<>> /\ s[1] = <<"launch", w>>)
    BY <1>1 DEF LightSteps
  <2> QED
    BY <2>1 DEF Sound, WorkerSlots
<1>4. WorkerStates(v)
  BY DEF Sound
<1>5. Order(r, v)
  BY <1>2 DEF Order
<1>6. Purpose(r, v)
  <2>0. Purpose(s, v)
    BY DEF Sound
  <2>1. /\ v.want[1] \in {"scene", "any"} => v.effect = None
        /\ v.want[1] = "effect" /\ v.serial => v.effect # None
        /\ v.show # None => v.want = <<"scene", Off>>
        /\ ~v.serial => v.effect = None
    BY <1>1, <2>0, LightStepsAre DEF Purpose
  <2>2. v.want[1] = "scene" => /\ v.want[2] \in 0 .. 3
                               /\ v.lamp = Shown(v.serial, v.want[2]) \/ v.show # None
    BY <1>1, <2>0, LightNames DEF Purpose, Draw
  <2>3. v.want[1] = "scene" => Draw(r, v)
    BY <1>2, <2>2 DEF Draw
  <2>4. ~Has(r, {"takeEffect"})
    BY <1>2, LightStepsAre
  <2> QED
    BY <2>1, <2>2, <2>3, <2>4 DEF Purpose
<1> QED
  BY <1>3, <1>4, <1>5, <1>6 DEF Sound

\* It is enough to look at the one thread that may be at the lights.
LEMMA OneAtLights ==
    ASSUME NEW t \in Threads, Alone(t)', todo' \in [Threads -> Seq(Steps)],
           Sound(todo'[t], View')
    PROVE  LightsSound'
<1>1. ASSUME NEW u \in Threads, Alone(u)'
      PROVE  Sound(todo'[u], View')
  <2>1. CASE u = t
    BY <2>1
  <2>2. CASE u # t
    <3>1. ~OfLights(todo'[t]) /\ ~OfLights(todo'[u])
      BY <1>1, <2>2 DEF Alone, AtLights
    <3>2. todo'[t] \in Seq(Steps) /\ todo'[u] \in Seq(Steps)
      OBVIOUS
    <3>3. ~Has(todo'[t], LightSteps) /\ ~Has(todo'[u], LightSteps)
      BY <3>1, <3>2 DEF Has, OfLights
    <3> QED
      BY <3>2, <3>3, FreeOfLights
  <2> QED
    BY <2>1, <2>2
<1> QED
  BY <1>1 DEF LightsSound

\* What else is drawn, and when.
LEMMA DrawsLess ==
    ASSUME NEW s, NEW off, NEW last, NEW split, NEW blank, NEW also,
           split /\ blank => also, Draws(s, off, last, split, blank)
    PROVE  Draws(s, off, last, split, also)
<1>1. PICK k \in 1 .. Len(s) : /\ s[k] = last
                               /\ \A j \in 1 .. Len(s) : j > k => Harmless(s[j])
                               /\ split => IF k = 1 THEN blank ELSE s[k - 1] = off
  BY DEF Draws
<1> QED
  BY <1>1 DEF Draws

LEMMA DrawsHas ==
    ASSUME NEW s, NEW off, NEW last, NEW split, NEW blank, Draws(s, off, last, split, blank),
           last[1] = "light"
    PROVE  Has(s, {"light"})
  BY DEF Draws, Has

LEMMA QuelledMore ==
    ASSUME NEW s, NEW off, NEW free, NEW more, free => more
    PROVE  /\ Quelled(s, off, free) => Quelled(s, off, more)
           /\ Freed(s, free) => Freed(s, more)
<1>1. Quelled(s, off, free) => Quelled(s, off, more)
  BY DEF Quelled
<1>2. Freed(s, free) => Freed(s, more)
  BY DEF Freed
<1> QED
  BY <1>1, <1>2

\* The order of steps, and what they draw, by the first step and the others.
LEMMA OrderFirst ==
    ASSUME NEW a \in Steps, NEW r \in Seq(Steps), NEW v
    PROVE  Order(<<a>> \o r, v) <=>
               /\ RaisesLate(r) /\ NewLast(r) /\ ~Has(r, {"join"})
               /\ a[1] \in Raising => ~Has(r, LightSteps)
               /\ a[1] \in New => /\ r # <<>> /\ r[1] = <<"launch", a[2][1]>>
                                  /\ ~Has(r, LightSteps \ {"launch"})
               /\ Allowed(a, v) /\ AllAllowed(r, v)
               /\ a[1] \in New \/ (a[1] = "light" /\ a # OffStep(v.serial)) => v.show = None
               /\ Quelled(r, OffStep(v.serial), v.show = None \/ a[1] \in Stops)
               /\ a[1] \in New => v.effect = None
               /\ Freed(r, v.effect = None \/ a[1] = "takeEffect")
<1> DEFINE q == <<a>> \o r
<1>1. /\ AllAllowed(q, v) <=> Allowed(a, v) /\ AllAllowed(r, v)
      /\ RaisesLate(q) <=> RaisesLate(r) /\ (a[1] \in Raising => ~Has(r, LightSteps))
      /\ JoinsFirst(q) <=> ~Has(r, {"join"})
      /\ NewLast(q) <=> /\ NewLast(r)
                        /\ a[1] \in New => /\ r # <<>> /\ r[1] = <<"launch", a[2][1]>>
                                           /\ ~Has(r, LightSteps \ {"launch"})
  BY EachPrefixed, RaisesPrefixed, NewPrefixed
<1>2. /\ (v.show = None) \in BOOLEAN /\ (v.effect = None) \in BOOLEAN
  OBVIOUS
<1>3. /\ Quelled(q, OffStep(v.serial), v.show = None) <=>
             /\ a[1] \in New \/ (a[1] = "light" /\ a # OffStep(v.serial)) => v.show = None
             /\ Quelled(r, OffStep(v.serial), v.show = None \/ a[1] \in Stops)
      /\ Freed(q, v.effect = None) <=> /\ a[1] \in New => v.effect = None
                                       /\ Freed(r, v.effect = None \/ a[1] = "takeEffect")
  BY <1>2, QuelledPrefixed
<1> HIDE DEF q
<1>4. Order(q, v) <=> /\ RaisesLate(q) /\ JoinsFirst(q) /\ NewLast(q) /\ AllAllowed(q, v)
                      /\ Quelled(q, OffStep(v.serial), v.show = None) /\ Freed(q, v.effect = None)
  BY DEF Order
<1>5. Order(q, v) <=>
          /\ RaisesLate(r) /\ NewLast(r) /\ ~Has(r, {"join"})
          /\ a[1] \in Raising => ~Has(r, LightSteps)
          /\ a[1] \in New => /\ r # <<>> /\ r[1] = <<"launch", a[2][1]>>
                             /\ ~Has(r, LightSteps \ {"launch"})
          /\ Allowed(a, v) /\ AllAllowed(r, v)
          /\ a[1] \in New \/ (a[1] = "light" /\ a # OffStep(v.serial)) => v.show = None
          /\ Quelled(r, OffStep(v.serial), v.show = None \/ a[1] \in Stops)
          /\ a[1] \in New => v.effect = None
          /\ Freed(r, v.effect = None \/ a[1] = "takeEffect")
  BY ONLY <1>1, <1>3, <1>4, Zenon
<1> QED
  BY <1>5 DEF q

LEMMA DrawFirst ==
    ASSUME NEW a \in Steps, NEW r \in Seq(Steps), NEW v
    PROVE  Draw(<<a>> \o r, v) <=>
               \/ /\ a = LastStep(v.serial, v.want[2]) /\ AllHarmless(r)
                  /\ Split(v.serial, v.want[2]) => v.lamp = {}
               \/ Draws(r, OffStep(v.serial), LastStep(v.serial, v.want[2]),
                        Split(v.serial, v.want[2]), a = OffStep(v.serial))
               \/ /\ Harmless(a) /\ AllHarmless(r)
                  /\ v.lamp = Shown(v.serial, v.want[2]) \/ v.show # None
<1> DEFINE off == OffStep(v.serial)
           last == LastStep(v.serial, v.want[2])
           split == Split(v.serial, v.want[2])
           blank == v.lamp = {}
           q == <<a>> \o r
<1>1. split \in BOOLEAN /\ blank \in BOOLEAN
  BY DEF Split
<1> HIDE DEF split, blank, off, last
<1>2. Draws(q, off, last, split, blank) <=>
          \/ a = last /\ AllHarmless(r) /\ (split => blank)
          \/ Draws(r, off, last, split, a = off)
  BY <1>1, DrawsPrefixed
<1>3. AllHarmless(q) <=> Harmless(a) /\ AllHarmless(r)
  BY EachPrefixed
<1> HIDE DEF q
<1> QED
  BY <1>2, <1>3 DEF Draw, off, last, split, blank, q

LEMMA NoJoins ==
    ASSUME NEW s, ~Has(s, {"join"})
    PROVE  JoinsFirst(s)
  BY DEF Has, JoinsFirst

\* A step that changes nothing of the lights is over.
LEMMA GoesPast ==
    ASSUME NEW a \in Steps, NEW r \in Seq(Steps), NEW v, Sound(<<a>> \o r, v),
           a[1] \notin {"light", "takeShow", "takeEffect", "newShow", "newEffect", "launch"},
           a[1] = "ifShow" => v.show = None,
           \A w \in Ids : a = <<"join", w>> => ~Active(w, v)
    PROVE  Sound(r, v)
<1> DEFINE q == <<a>> \o r
           off == OffStep(v.serial)
           last == LastStep(v.serial, v.want[2])
           split == Split(v.serial, v.want[2])
<1>0. q # <<>> /\ q[1] = a
  BY Prefixed
<1>1. WorkerSlots(q, v) /\ WorkerStates(v) /\ Order(q, v) /\ Purpose(q, v)
  BY DEF Sound
<1>2. \A N : Has(q, N) <=> a[1] \in N \/ Has(r, N)
  BY HasPrefixed
<1>3. /\ RaisesLate(r) /\ NewLast(r) /\ ~Has(r, {"join"}) /\ AllAllowed(r, v)
      /\ Quelled(r, off, v.show = None \/ a[1] \in Stops)
      /\ Freed(r, v.effect = None \/ a[1] = "takeEffect")
  BY <1>1, OrderFirst
<1>4. Draw(q, v) <=> \/ /\ a = last /\ AllHarmless(r)
                        /\ split => v.lamp = {}
                     \/ Draws(r, off, last, split, a = off)
                     \/ /\ Harmless(a) /\ AllHarmless(r)
                        /\ v.lamp = Shown(v.serial, v.want[2]) \/ v.show # None
  BY DrawFirst
<1>5. off[1] = "light" /\ last[1] = "light"
  BY LightNames
<1> HIDE DEF q, off, last, split
<1>6. WorkerSlots(r, v)
  <2>1. \A w : q[1] # <<"launch", w>>
    BY <1>0
  <2>2. \A w \in Ids : Active(w, v) => q[1] # <<"join", w>>
    BY <1>0
  <2> QED
    BY <1>1, <2>1, <2>2 DEF WorkerSlots
<1>7. Order(r, v)
  <2>1. a[1] \in Stops => v.show = None
    BY DEF Stops
  <2>2. Quelled(r, off, v.show = None) /\ Freed(r, v.effect = None)
    BY <1>3, <2>1, QuelledMore
  <2>3. JoinsFirst(r)
    BY <1>3, NoJoins
  <2> QED
    BY <1>3, <2>2, <2>3 DEF Order, off
<1>8. Purpose(r, v)
  <2>1. /\ Has(q, {"takeEffect"}) <=> Has(r, {"takeEffect"})
        /\ Has(q, {"newEffect"}) <=> Has(r, {"newEffect"})
        /\ Has(q, {"light"}) <=> Has(r, {"light"})
        /\ v.show # None => (Has(q, Stops) <=> Has(r, Stops))
    BY <1>2 DEF Stops
  <2>2. Draw(q, v) => Draw(r, v)
    <3>1. a # last /\ a # off
      BY <1>5
    <3>2. Draws(r, off, last, split, a = off) => Draws(r, off, last, split, v.lamp = {})
      BY <3>1, DrawsLess
    <3> QED
      BY <1>4, <3>1, <3>2 DEF Draw, off, last, split
  <2> QED
    BY <1>1, <2>1, <2>2 DEF Purpose
<1> QED
  BY <1>1, <1>6, <1>7, <1>8 DEF Sound

\* What may begin may still begin, as long as its worker's number is not used.
LEMMA StillAllowed ==
    ASSUME NEW r \in Seq(Steps), NEW v, NEW u, AllAllowed(r, v),
           u.want = v.want, u.serial = v.serial, v.begun \in Nat, u.begun \in Nat,
           v.begun <= u.begun,
           \A w \in Ids : v.worker[w].st = "none" => u.worker[w].st = "none"
    PROVE  AllAllowed(r, u)
<1> SUFFICES ASSUME NEW i \in 1 .. Len(r) PROVE Allowed(r[i], u)
  BY DEF AllAllowed
<1>1. r[i] \in Steps /\ Allowed(r[i], v)
  BY ElementOfSeq DEF AllAllowed
<1>2. ASSUME r[i][1] \in New
      PROVE  u.worker[r[i][2][1]].st = "none" /\ r[i][2][1] <= u.begun
  <2>1. r[i][2][1] \in Ids
    <3>1. r[i][1] = "newShow" \/ r[i][1] = "newEffect"
      BY <1>2 DEF New
    <3>2. r[i][2] \in Ids \X {0} \/ r[i][2] \in Ids \X DOMAIN Patterns
      BY <1>1, <3>1, Arguments
    <3> QED
      BY <3>2
  <2>2. v.worker[r[i][2][1]].st = "none" /\ r[i][2][1] <= v.begun
    BY <1>1, <1>2 DEF Allowed
  <2>3. r[i][2][1] \in Nat
    BY <2>1, TcpAssumption DEF Ids
  <2> QED
    BY <2>1, <2>2, <2>3
<1>3. /\ r[i][1] = "newShow" => u.want = <<"scene", Off>>
      /\ r[i][1] = "newEffect" => u.want[1] = "effect" /\ u.serial
  BY <1>1 DEF Allowed
<1> QED
  BY <1>2, <1>3 DEF Allowed

\* The same workers, of which one more may have been told to end.
Alike(u, v) ==
    /\ u.serial = v.serial /\ u.begun = v.begun /\ u.lamp = v.lamp /\ u.want = v.want
    /\ \A w \in Ids : /\ u.worker[w].st = v.worker[w].st /\ u.worker[w].show = v.worker[w].show
                      /\ u.worker[w].out = v.worker[w].out
                      /\ v.worker[w].told => u.worker[w].told

\* _take: the slot of the show is emptied, and its worker told.
LEMMA TakesShow ==
    ASSUME NEW a \in Steps, NEW r \in Seq(Steps), NEW v, NEW u, a[1] = "takeShow", Lights(v),
           Sound(<<a>> \o r, v), Alike(u, v), u.show = None, u.effect = v.effect,
           \A w \in Ids : w # v.show => u.worker[w].told = v.worker[w].told
    PROVE  Sound(<<<<"join", v.show>>>> \o r, u)
<1> DEFINE q == <<a>> \o r
           b == <<"join", v.show>>
           p == <<b>> \o r
           off == OffStep(v.serial)
           last == LastStep(v.serial, v.want[2])
           split == Split(v.serial, v.want[2])
<1>0. b \in Steps /\ v.show \in 0 .. MaxFrames /\ v.effect \in 0 .. MaxFrames
  BY DEF Lights, Steps
<1>1. WorkerSlots(q, v) /\ WorkerStates(v) /\ Order(q, v) /\ Purpose(q, v)
  BY DEF Sound
<1>2. q # <<>> /\ q[1] = a /\ p # <<>> /\ p[1] = b
  BY <1>0, Prefixed
<1>3. \A N : (Has(q, N) <=> a[1] \in N \/ Has(r, N)) /\ (Has(p, N) <=> b[1] \in N \/ Has(r, N))
  BY <1>0, HasPrefixed
<1>4. /\ RaisesLate(r) /\ NewLast(r) /\ ~Has(r, {"join"}) /\ AllAllowed(r, v)
      /\ Quelled(r, off, v.show = None \/ a[1] \in Stops)
      /\ Freed(r, v.effect = None \/ a[1] = "takeEffect")
  BY <1>1, OrderFirst
<1>5. off[1] = "light" /\ last[1] = "light"
  BY LightNames
<1>6. Draw(q, v) => Draws(r, off, last, split, a = off)
  <2>1. a # last /\ ~Harmless(a)
    BY <1>5 DEF Harmless
  <2> QED
    BY <2>1, DrawFirst
<1>7. u.serial = v.serial /\ u.begun = v.begun /\ u.lamp = v.lamp /\ u.want = v.want
  BY DEF Alike
<1>8. \A w \in Ids : /\ u.worker[w].st = v.worker[w].st /\ u.worker[w].show = v.worker[w].show
                     /\ u.worker[w].out = v.worker[w].out /\ (Active(w, u) <=> Active(w, v))
                     /\ v.worker[w].told => u.worker[w].told
  BY DEF Alike, Active
<1> HIDE DEF q, p, off, last, split
<1>9. WorkerSlots(p, u)
  <2>1. \A w \in Ids : Active(w, v) => w = IF v.worker[w].show THEN v.show ELSE v.effect
    <3>1. \A w : q[1] # <<"join", w>>
      BY <1>2
    <3> QED
      BY <1>1, <3>1 DEF WorkerSlots
  <2>2. \A w \in Ids : u.worker[w].st # "new"
    <3>1. \A w : q[1] # <<"launch", w>>
      BY <1>2
    <3> QED
      BY <1>1, <1>8, <3>1 DEF WorkerSlots
  <2>3. \A w \in Ids : Active(w, u) => \/ w = IF u.worker[w].show THEN u.show ELSE u.effect
                                       \/ p # <<>> /\ p[1] = <<"join", w>>
    BY <1>2, <1>8, <2>1
  <2>4. u.effect # None => /\ ~u.worker[u.effect].show /\ ~u.worker[u.effect].told
                           /\ Active(u.effect, u)
    <3> SUFFICES ASSUME v.effect # None
                 PROVE  /\ ~u.worker[v.effect].show /\ ~u.worker[v.effect].told
                        /\ Active(v.effect, u)
      OBVIOUS
    <3>1. v.effect \in Ids
      BY <1>0, TcpAssumption DEF Ids, None
    <3>2. ~v.worker[v.effect].show /\ ~v.worker[v.effect].told /\ Active(v.effect, v)
      BY <1>1 DEF WorkerSlots
    <3>3. v.effect # v.show
      BY <1>1, <3>2 DEF WorkerSlots
    <3> QED
      BY <1>8, <3>1, <3>2, <3>3
  <2>5. \A w, x \in Ids : Active(w, u) /\ Active(x, u) => w = x
    BY <1>1, <1>8 DEF WorkerSlots
  <2> QED
    BY <2>2, <2>3, <2>4, <2>5 DEF WorkerSlots
<1>10. WorkerStates(u)
  BY <1>1, <1>7, <1>8 DEF WorkerStates
<1>11. Order(p, u)
  <2>1. AllAllowed(r, u)
    BY <1>4, <1>7, <1>8, StillAllowed DEF Lights
  <2>2. Quelled(r, off, u.show = None \/ b[1] \in Stops)
    BY <1>4, QuelledMore
  <2>3. a[1] # "takeEffect"
    OBVIOUS
  <2>4. Freed(r, u.effect = None \/ b[1] = "takeEffect")
    BY <1>4, <2>3, QuelledMore
  <2>5. b[1] \notin New /\ b[1] \notin Raising /\ b[1] # "light" /\ Allowed(b, u)
    BY DEF New, Raising, Allowed
  <2> QED
    BY <1>0, <1>4, <1>7, <2>1, <2>2, <2>4, <2>5, OrderFirst DEF p, off
<1>12. Purpose(p, u)
  <2>1. \A N \in {{"takeEffect"}, {"newEffect"}} : Has(p, N) <=> Has(q, N)
    BY <1>3
  <2>2. Draw(q, v) => Draw(p, u)
    <3>1. a # off
      BY <1>5
    <3>2. Draws(r, off, last, split, a = off) => Draws(r, off, last, split, b = off)
      BY <3>1, DrawsLess
    <3> QED
      BY <1>0, <1>6, <1>7, <3>2, DrawFirst DEF p, off, last, split
  <2> QED
    BY <1>1, <1>7, <2>1, <2>2 DEF Purpose
<1> QED
  BY <1>9, <1>10, <1>11, <1>12 DEF Sound, p

\* The same for the effect.
LEMMA TakesEffect ==
    ASSUME NEW a \in Steps, NEW r \in Seq(Steps), NEW v, NEW u, a[1] = "takeEffect", Lights(v),
           Sound(<<a>> \o r, v), Alike(u, v), u.effect = None, u.show = v.show,
           \A w \in Ids : w # v.effect => u.worker[w].told = v.worker[w].told
    PROVE  Sound(<<<<"join", v.effect>>>> \o r, u)
<1> DEFINE q == <<a>> \o r
           b == <<"join", v.effect>>
           p == <<b>> \o r
           off == OffStep(v.serial)
           last == LastStep(v.serial, v.want[2])
           split == Split(v.serial, v.want[2])
<1>0. b \in Steps /\ v.show \in 0 .. MaxFrames /\ v.effect \in 0 .. MaxFrames
  BY DEF Lights, Steps
<1>1. WorkerSlots(q, v) /\ WorkerStates(v) /\ Order(q, v) /\ Purpose(q, v)
  BY DEF Sound
<1>2. q # <<>> /\ q[1] = a /\ p # <<>> /\ p[1] = b
  BY <1>0, Prefixed
<1>3. \A N : (Has(q, N) <=> a[1] \in N \/ Has(r, N)) /\ (Has(p, N) <=> b[1] \in N \/ Has(r, N))
  BY <1>0, HasPrefixed
<1>4. /\ RaisesLate(r) /\ NewLast(r) /\ ~Has(r, {"join"}) /\ AllAllowed(r, v)
      /\ Quelled(r, off, v.show = None \/ a[1] \in Stops)
      /\ Freed(r, v.effect = None \/ a[1] = "takeEffect")
  BY <1>1, OrderFirst
<1>5. off[1] = "light" /\ last[1] = "light"
  BY LightNames
<1>6. Draw(q, v) => Draws(r, off, last, split, a = off)
  <2>1. a # last /\ ~Harmless(a)
    BY <1>5 DEF Harmless
  <2> QED
    BY <2>1, DrawFirst
<1>7. u.serial = v.serial /\ u.begun = v.begun /\ u.lamp = v.lamp /\ u.want = v.want
  BY DEF Alike
<1>8. \A w \in Ids : /\ u.worker[w].st = v.worker[w].st /\ u.worker[w].show = v.worker[w].show
                     /\ u.worker[w].out = v.worker[w].out /\ (Active(w, u) <=> Active(w, v))
                     /\ v.worker[w].told => u.worker[w].told
  BY DEF Alike, Active
<1> HIDE DEF q, p, off, last, split
<1>9. WorkerSlots(p, u)
  <2>1. \A w \in Ids : Active(w, v) => w = IF v.worker[w].show THEN v.show ELSE v.effect
    <3>1. \A w : q[1] # <<"join", w>>
      BY <1>2
    <3> QED
      BY <1>1, <3>1 DEF WorkerSlots
  <2>2. \A w \in Ids : u.worker[w].st # "new"
    <3>1. \A w : q[1] # <<"launch", w>>
      BY <1>2
    <3> QED
      BY <1>1, <1>8, <3>1 DEF WorkerSlots
  <2>3. \A w \in Ids : Active(w, u) => \/ w = IF u.worker[w].show THEN u.show ELSE u.effect
                                       \/ p # <<>> /\ p[1] = <<"join", w>>
    BY <1>2, <1>8, <2>1
  <2>4. u.show # None => /\ u.worker[u.show].show /\ ~u.worker[u.show].told
                         /\ Active(u.show, u)
    <3> SUFFICES ASSUME v.show # None
                 PROVE  /\ u.worker[v.show].show /\ ~u.worker[v.show].told
                        /\ Active(v.show, u)
      OBVIOUS
    <3>1. v.show \in Ids
      BY <1>0, TcpAssumption DEF Ids, None
    <3>2. v.worker[v.show].show /\ ~v.worker[v.show].told /\ Active(v.show, v)
      BY <1>1 DEF WorkerSlots
    <3>3. v.effect # v.show
      BY <1>1, <3>2 DEF WorkerSlots, None
    <3> QED
      BY <1>8, <3>1, <3>2, <3>3
  <2>5. \A w, x \in Ids : Active(w, u) /\ Active(x, u) => w = x
    BY <1>1, <1>8 DEF WorkerSlots
  <2> QED
    BY <2>2, <2>3, <2>4, <2>5 DEF WorkerSlots
<1>10. WorkerStates(u)
  <2>1. v.show # None => v.show \in Ids
    BY <1>0, TcpAssumption DEF Ids, None
  <2>2. u.show # None /\ u.worker[u.show].st = "clear" => u.lamp = Shown(u.serial, Off)
    BY <1>1, <1>7, <1>8, <2>1 DEF WorkerStates
  <2> QED
    BY <1>1, <1>7, <1>8, <2>2 DEF WorkerStates
<1>11. Order(p, u)
  <2>1. AllAllowed(r, u)
    BY <1>4, <1>7, <1>8, StillAllowed DEF Lights
  <2>2. Freed(r, u.effect = None \/ b[1] = "takeEffect")
    BY <1>4, QuelledMore
  <2>3. a[1] \notin Stops
    BY DEF Stops
  <2>4. Quelled(r, off, u.show = None \/ b[1] \in Stops)
    BY <1>4, <2>3, QuelledMore
  <2>5. b[1] \notin New /\ b[1] \notin Raising /\ b[1] # "light" /\ Allowed(b, u)
    BY DEF New, Raising, Allowed
  <2> QED
    BY <1>0, <1>4, <1>7, <2>1, <2>2, <2>4, <2>5, OrderFirst DEF p, off
<1>12. Purpose(p, u)
  <2>1. /\ \A N \in {{"newEffect"}, {"light"}, Stops} : Has(p, N) <=> Has(q, N)
        /\ Has(q, {"takeEffect"})
    BY <1>3 DEF Stops
  <2>2. Draw(q, v) => Draw(p, u)
    <3>1. a # off
      BY <1>5
    <3>2. Draws(r, off, last, split, a = off) => Draws(r, off, last, split, b = off)
      BY <3>1, DrawsLess
    <3> QED
      BY <1>0, <1>6, <1>7, <3>2, DrawFirst DEF p, off, last, split
  <2> QED
    BY <1>1, <1>7, <2>1, <2>2 DEF Purpose
<1> QED
  BY <1>9, <1>10, <1>11, <1>12 DEF Sound, p

LEMMA LastOff ==
    \A port : LastStep(port, Off) = OffStep(port) /\ ~Split(port, Off)
<1>1. \A port : LastPacket(port, Off) = OffPacket(port)
  BY DEF LastPacket, OffPacket, Off, On, Left, Right
<1>2. \A port : ~Split(port, Off)
  BY DEF Split, Off, Left, Right
<1> QED
  BY <1>1, <1>2 DEF LastStep, OffStep

LEMMA HarmlessHas ==
    ASSUME NEW s, AllHarmless(s)
    PROVE  ~Has(s, {"light", "takeShow", "takeEffect", "join", "newEffect"})
  BY DEF AllHarmless, Harmless, Has

\* _stop_show_if_running, with a show that runs: the steps m are before the
\* others.
LEMMA StopsShow ==
    ASSUME NEW a \in Steps, NEW r \in Seq(Steps), NEW v, a[1] = "ifShow", Sound(<<a>> \o r, v),
           v.show # None, OffStep(v.serial) \in Steps, NEW m,
           IF a[2] THEN m = <<OffStep(v.serial)>> \o r ELSE m = r
    PROVE  Sound(<<<<"takeShow", 0>>>> \o m, v)
<1> DEFINE q == <<a>> \o r
           t == <<"takeShow", 0>>
           p == <<t>> \o m
           off == OffStep(v.serial)
           last == LastStep(v.serial, v.want[2])
           split == Split(v.serial, v.want[2])
<1>0. /\ t \in Steps /\ m \in Seq(Steps) /\ a[2] \in BOOLEAN /\ a = <<"ifShow", a[2]>>
  <2>1. t \in Steps /\ a[2] \in BOOLEAN /\ a = <<"ifShow", a[2]>>
    BY DEF Steps
  <2>2. <<OffStep(v.serial)>> \o r \in Seq(Steps)
    BY Prefixed
  <2>3. m \in Seq(Steps)
    BY <2>2
  <2> QED
    BY <2>1, <2>3
<1>1. WorkerSlots(q, v) /\ WorkerStates(v) /\ Order(q, v) /\ Purpose(q, v)
  BY DEF Sound
<1>2. q # <<>> /\ q[1] = a /\ p # <<>> /\ p[1] = t
  BY <1>0, Prefixed
<1>3. \A N : (Has(q, N) <=> a[1] \in N \/ Has(r, N)) /\ (Has(p, N) <=> t[1] \in N \/ Has(m, N))
  BY <1>0, HasPrefixed
<1>4. /\ RaisesLate(r) /\ NewLast(r) /\ ~Has(r, {"join"}) /\ AllAllowed(r, v)
      /\ Quelled(r, off, v.show = None \/ a[1] \in Stops)
      /\ Freed(r, v.effect = None \/ a[1] = "takeEffect")
  BY <1>1, OrderFirst
<1>5. off[1] = "light" /\ last[1] = "light" /\ off \in Steps
  BY LightNames
<1>6. IF a[2] THEN m = <<off>> \o r ELSE m = r
  OBVIOUS
<1>7. \A N : Has(m, N) <=> Has(r, N) \/ (a[2] /\ "light" \in N)
  <2>1. \A N : Has(<<off>> \o r, N) <=> off[1] \in N \/ Has(r, N)
    BY <1>5, HasPrefixed
  <2> QED
    BY <1>5, <1>6, <2>1
<1>8. Draw(q, v) => \/ Draws(r, off, last, split, a = off)
                    \/ a[2] /\ AllHarmless(r)
  <2>1. a # last /\ (Harmless(a) => a[2])
    BY <1>0, <1>5 DEF Harmless
  <2> QED
    BY <2>1, DrawFirst
<1> HIDE DEF q, p, off, last, split
<1>9. WorkerSlots(p, v)
  <2>1. \A w : q[1] # <<"join", w>> /\ q[1] # <<"launch", w>>
    BY <1>2
  <2> QED
    BY <1>1, <2>1 DEF WorkerSlots
<1>10. Order(p, v)
  <2> DEFINE free == v.effect = None
  <2>0. free \in BOOLEAN
    OBVIOUS
  <2> HIDE DEF free
  <2>1. Quelled(r, off, TRUE) /\ Freed(r, free)
    BY <1>4, QuelledMore DEF free
  <2>2. /\ RaisesLate(m) /\ NewLast(m) /\ AllAllowed(m, v) /\ Quelled(m, off, TRUE)
        /\ Freed(m, free)
    <3>1. CASE ~a[2]
      BY <1>4, <1>6, <2>1, <3>1
    <3>2. CASE a[2]
      <4>1. /\ off[1] \notin New /\ off[1] \notin Raising /\ off[1] \notin {"newShow", "newEffect"}
            /\ off[1] # "takeEffect"
        BY <1>5 DEF New, Raising
      <4>0. m = <<off>> \o r
        BY <1>6, <3>2
      <4>2. RaisesLate(m) /\ NewLast(m)
        <5>1. RaisesLate(<<off>> \o r)
          BY <1>4, <1>5, <4>1, RaisesPrefixed
        <5>2. NewLast(<<off>> \o r)
          BY <1>4, <1>5, <4>1, NewPrefixed
        <5> QED
          BY <4>0, <5>1, <5>2
      <4>3. AllAllowed(m, v)
        <5>1. Allowed(off, v)
          BY <4>1 DEF Allowed
        <5>2. AllAllowed(<<off>> \o r, v)
          BY <1>4, <1>5, <5>1, EachPrefixed
        <5> QED
          BY <4>0, <5>2
      <4>4. Quelled(m, off, TRUE)
        <5>1. Quelled(r, off, TRUE \/ off[1] \in Stops)
          BY <2>1, QuelledMore
        <5>2. ~(off[1] \in New \/ (off[1] = "light" /\ off # off))
          BY <4>1
        <5>3. Quelled(<<off>> \o r, off, TRUE)
          BY <1>5, <5>1, <5>2, QuelledPrefixed
        <5> QED
          BY <4>0, <5>3
      <4>5. Freed(m, free)
        <5>1. Freed(r, free \/ off[1] = "takeEffect")
          BY <2>1, QuelledMore
        <5>2. Freed(<<off>> \o r, free) <=> /\ off[1] \in New => free
                                            /\ Freed(r, free \/ off[1] = "takeEffect")
          BY <1>5, <2>0, QuelledPrefixed
        <5>3. Freed(<<off>> \o r, free)
          BY <4>1, <5>1, <5>2
        <5> QED
          BY <4>0, <5>3
      <4> QED
        BY <4>2, <4>3, <4>4, <4>5
    <3> QED
      BY <1>0, <3>1, <3>2
  <2>3. ~Has(m, {"join"})
    BY <1>4, <1>7
  <2>4. /\ t[1] \notin New /\ t[1] \notin Raising /\ t[1] # "light" /\ Allowed(t, v)
        /\ t[1] \in Stops /\ t[1] # "takeEffect"
    BY DEF New, Raising, Allowed, Stops
  <2>5. Quelled(m, off, v.show = None \/ t[1] \in Stops) /\ Freed(m, free \/ t[1] = "takeEffect")
    BY <2>2, <2>4, QuelledMore
  <2> QED
    BY <1>0, <2>2, <2>3, <2>4, <2>5, OrderFirst DEF p, off, free
<1>11. Purpose(p, v)
  <2>1. /\ \A N \in {{"takeEffect"}, {"newEffect"}} : Has(p, N) <=> Has(q, N)
        /\ Has(q, {"light"}) => Has(p, {"light"})
        /\ Has(p, Stops)
    BY <1>3, <1>7 DEF Stops
  <2>2. ASSUME v.want[1] = "scene", Draw(q, v)
        PROVE  Draw(p, v)
    <3>0. a # off
      BY <1>0, <1>5
    <3>1. CASE Draws(r, off, last, split, a = off)
      <4>1. CASE ~a[2]
        <5>1. Draws(m, off, last, split, t = off)
          BY <1>6, <3>0, <3>1, <4>1, DrawsLess
        <5> QED
          BY <1>0, <5>1, DrawFirst DEF p, off, last, split
      <4>2. CASE a[2]
        <5> DEFINE blank == t = off
        <5>0. split \in BOOLEAN /\ blank \in BOOLEAN
          BY DEF split, Split
        <5> HIDE DEF blank
        <5>1. Draws(r, off, last, split, off = off)
          BY <3>1, DrawsLess
        <5>2. Draws(<<off>> \o r, off, last, split, blank)
          BY <1>5, <5>0, <5>1, DrawsPrefixed
        <5>3. m = <<off>> \o r
          BY <1>6, <4>2
        <5>4. Draws(m, off, last, split, t = off)
          BY <5>2, <5>3 DEF blank
        <5> QED
          BY <1>0, <5>4, DrawFirst DEF p, off, last, split
      <4> QED
        BY <1>0, <4>1, <4>2
    <3>2. CASE a[2] /\ AllHarmless(r)
      <4>1. ~Has(q, {"light"})
        BY <1>3, <3>2, HarmlessHas DEF Has
      <4>2. v.want = <<"scene", Off>>
        BY <1>1, <2>2, <4>1 DEF Purpose
      <4>3. last = off /\ ~split
        BY <4>2, LastOff DEF last, off, split
      <4> DEFINE blank == t = off
      <4>4. split \in BOOLEAN /\ blank \in BOOLEAN
        BY DEF split, Split
      <4> HIDE DEF blank
      <4>5. Draws(<<off>> \o r, off, last, split, blank)
        BY <1>5, <3>2, <4>3, <4>4, DrawsPrefixed
      <4>6. m = <<off>> \o r
        BY <1>6, <3>2
      <4>7. Draws(m, off, last, split, t = off)
        BY <4>5, <4>6 DEF blank
      <4> QED
        BY <1>0, <4>7, DrawFirst DEF p, off, last, split
    <3> QED
      BY <1>8, <2>2, <3>1, <3>2
  <2> QED
    BY <1>1, <2>1, <2>2 DEF Purpose
<1> QED
  BY <1>1, <1>9, <1>10, <1>11 DEF Sound, p

\* The lamps after a packet.
Switched(packet, lamps) ==
    CASE packet[1] = "publish" -> packet[2]
      [] packet = <<"both", 0>> -> {}
      [] packet = <<"both", 1>> -> Sides
      [] OTHER -> lamps \cup {packet[1]}

\* The last packet of a scene shows it, on dark lamps if it is split.
LEMMA LastPacketShows ==
    ASSUME NEW port \in BOOLEAN, NEW lamps
    PROVE  /\ \A x \in 0 .. 3 : (Split(port, x) => lamps = {})
                  => Switched(LastPacket(port, x), lamps) = Shown(port, x)
           /\ Switched(OffPacket(port), lamps) = Shown(port, Off)
           /\ port => Shown(port, Off) = {}
<1>1. CASE ~port
  BY <1>1 DEF Switched, LastPacket, OffPacket, Shown, Off
<1>2. CASE port
  <2>1. /\ LastPacket(TRUE, 0) = <<"both", 0>> /\ LastPacket(TRUE, 1) = <<"both", 1>>
        /\ LastPacket(TRUE, 2) = <<"left", 1>> /\ LastPacket(TRUE, 3) = <<"right", 1>>
        /\ OffPacket(TRUE) = <<"both", 0>>
    BY DEF LastPacket, OffPacket, Off, On, Left, Right
  <2>2. /\ Shown(TRUE, 0) = {} /\ Shown(TRUE, 1) = Sides
        /\ Shown(TRUE, 2) = {"left"} /\ Shown(TRUE, 3) = {"right"}
    BY DEF Shown, Off, On, Left, Right
  <2>3. Split(TRUE, 2) /\ Split(TRUE, 3)
    BY DEF Split, Left, Right
  <2>4. /\ Switched(<<"both", 0>>, lamps) = {} /\ Switched(<<"both", 1>>, lamps) = Sides
        /\ Switched(<<"left", 1>>, lamps) = lamps \cup {"left"}
        /\ Switched(<<"right", 1>>, lamps) = lamps \cup {"right"}
    BY DEF Switched
  <2>5. ASSUME NEW x \in 0 .. 3, Split(port, x) => lamps = {}
        PROVE  Switched(LastPacket(port, x), lamps) = Shown(port, x)
    <3>1. port = TRUE /\ (x = 0 \/ x = 1 \/ x = 2 \/ x = 3)
      BY <1>2
    <3>2. x \in {2, 3} => lamps = {}
      BY <2>3, <2>5, <3>1
    <3>3. x = 2 => lamps \cup {"left"} = {"left"}
      BY <3>2
    <3>4. x = 3 => lamps \cup {"right"} = {"right"}
      BY <3>2
    <3> QED
      BY <2>1, <2>2, <2>4, <3>1, <3>3, <3>4
  <2>6. port = TRUE
    BY <1>2
  <2> QED
    BY <2>1, <2>2, <2>4, <2>5, <2>6 DEF Off
<1> QED
  BY <1>1, <1>2

\* A packet or a message is written.
LEMMA Writes ==
    ASSUME NEW a \in Steps, NEW r \in Seq(Steps), NEW v, NEW u, a[1] = "light",
           Sound(<<a>> \o r, v), v.serial \in BOOLEAN, v.want = <<v.want[1], v.want[2]>>,
           u.serial = v.serial, u.begun = v.begun, u.show = v.show, u.effect = v.effect,
           u.worker = v.worker, u.want = v.want, u.lamp = Switched(a[2], v.lamp)
    PROVE  Sound(r, u)
<1> DEFINE q == <<a>> \o r
           off == OffStep(v.serial)
           last == LastStep(v.serial, v.want[2])
           split == Split(v.serial, v.want[2])
<1>0. q # <<>> /\ q[1] = a
  BY Prefixed
<1>1. WorkerSlots(q, v) /\ WorkerStates(v) /\ Order(q, v) /\ Purpose(q, v)
  BY DEF Sound
<1>2. \A N : Has(q, N) <=> a[1] \in N \/ Has(r, N)
  BY HasPrefixed
<1>3. /\ RaisesLate(r) /\ NewLast(r) /\ ~Has(r, {"join"}) /\ AllAllowed(r, v)
      /\ a # off => v.show = None
      /\ Quelled(r, off, v.show = None \/ a[1] \in Stops)
      /\ Freed(r, v.effect = None \/ a[1] = "takeEffect")
  BY <1>1, OrderFirst
<1>4. Draw(q, v) => \/ /\ a = last /\ AllHarmless(r)
                       /\ split => v.lamp = {}
                    \/ Draws(r, off, last, split, a = off)
  <2>1. ~Harmless(a)
    BY DEF Harmless
  <2> QED
    BY <2>1, DrawFirst
<1>5. off[1] = "light" /\ last[1] = "light"
  BY LightNames
<1>6. /\ a = off => u.lamp = Shown(v.serial, Off) /\ (v.serial => u.lamp = {})
      /\ a = last /\ v.want[2] \in 0 .. 3 /\ (split => v.lamp = {})
             => u.lamp = Shown(v.serial, v.want[2])
  <2>1. off[2] = OffPacket(v.serial) /\ last[2] = LastPacket(v.serial, v.want[2])
    BY DEF OffStep, LastStep
  <2> QED
    BY <2>1, LastPacketShows
<1>7. split => v.serial
  BY DEF Split
<1> HIDE DEF q, off, last, split
<1>9. WorkerSlots(r, u)
  <2>1. \A w : q[1] # <<"join", w>> /\ q[1] # <<"launch", w>>
    BY <1>0
  <2> QED
    BY <1>1, <2>1 DEF WorkerSlots, Active
<1>10. WorkerStates(u)
  BY <1>1, <1>3, <1>6 DEF WorkerStates
<1>11. Order(r, u)
  <2>1. a[1] \notin Stops /\ a[1] # "takeEffect"
    BY DEF Stops
  <2>2. Quelled(r, off, v.show = None) /\ Freed(r, v.effect = None)
    BY <1>3, <2>1, QuelledMore
  <2>3. JoinsFirst(r) /\ AllAllowed(r, u)
    BY <1>3, NoJoins DEF AllAllowed, Allowed
  <2> QED
    BY <1>3, <2>2, <2>3 DEF Order, off
<1>12. Purpose(r, u)
  <2>1. /\ \A N \in {{"takeEffect"}, {"newEffect"}, Stops} : Has(r, N) <=> Has(q, N)
    BY <1>2 DEF Stops
  <2>2. ASSUME v.want[1] = "scene"
        PROVE  /\ v.want[2] \in 0 .. 3 /\ Draw(r, u)
               /\ v.show # None => v.want = <<"scene", Off>> \/ Has(r, {"light"})
    <3>1. v.want[2] \in 0 .. 3 /\ Draw(q, v)
      BY <1>1, <2>2 DEF Purpose
    <3>2. CASE a = last /\ AllHarmless(r) /\ (split => v.lamp = {})
      <4>1. u.lamp = Shown(v.serial, v.want[2])
        BY <1>6, <3>1, <3>2
      <4>2. Draw(r, u)
        BY <3>2, <4>1 DEF Draw
      <4>3. ASSUME v.show # None
            PROVE  v.want[2] = Off
        <5>1. last = off
          BY <1>3, <3>2, <4>3
        <5> QED
          BY <3>1, <5>1 DEF last, off, LastStep, OffStep, LastPacket, OffPacket, Off, On, Left, Right
      <4> QED
        BY <2>2, <3>1, <4>2, <4>3
    <3>3. CASE Draws(r, off, last, split, a = off)
      <4>1. Draws(r, off, last, split, u.lamp = {})
        BY <1>6, <1>7, <3>3, DrawsLess
      <4>2. Has(r, {"light"})
        BY <1>5, <3>3, DrawsHas
      <4> QED
        BY <3>1, <4>1, <4>2 DEF Draw, off, last, split
    <3> QED
      BY <1>4, <3>1, <3>2, <3>3
  <2> QED
    BY <1>1, <2>1, <2>2 DEF Purpose
<1> QED
  BY <1>9, <1>10, <1>11, <1>12 DEF Sound

\* A worker is registered: it is the only one.
LEMMA Registers ==
    ASSUME NEW a \in Steps, NEW r \in Seq(Steps), NEW v, NEW u, NEW w, a[1] \in New,
           w = a[2][1], Sound(<<a>> \o r, v), Lights(v),
           u.serial = v.serial, u.begun = v.begun, u.lamp = v.lamp, u.want = v.want,
           u.show = IF a[1] = "newShow" THEN w ELSE v.show,
           u.effect = IF a[1] = "newShow" THEN v.effect ELSE w,
           u.worker[w].st = "new", u.worker[w].show <=> a[1] = "newShow", ~u.worker[w].told,
           \A x \in Ids \ {w} : u.worker[x] = v.worker[x]
    PROVE  Sound(r, u)
<1> DEFINE q == <<a>> \o r
           M == LightSteps \ {"launch"}
<1>0. q # <<>> /\ q[1] = a
  BY Prefixed
<1>1. WorkerSlots(q, v) /\ WorkerStates(v) /\ Order(q, v) /\ Purpose(q, v)
  BY DEF Sound
<1>2. /\ r # <<>> /\ r[1] = <<"launch", w>> /\ ~Has(r, M)
      /\ RaisesLate(r) /\ NewLast(r) /\ ~Has(r, {"join"})
      /\ Allowed(a, v) /\ v.show = None /\ v.effect = None
  BY <1>1, OrderFirst
<1>3. w \in Ids /\ w # None
  <2>1. a[2] \in Ids \X {0} \/ a[2] \in Ids \X DOMAIN Patterns
    BY Arguments DEF New
  <2>2. w \in Ids
    BY <2>1
  <2> QED
    BY <2>2, TcpAssumption DEF Ids, None
<1>4. /\ v.worker[w].st = "none" /\ w <= v.begun
      /\ a[1] = "newShow" => v.want = <<"scene", Off>>
      /\ a[1] = "newEffect" => v.want[1] = "effect" /\ v.serial
  BY <1>2 DEF Allowed
<1>5. a[1] = "newShow" \/ a[1] = "newEffect"
  BY DEF New
<1>6. \A i \in 1 .. Len(r) : r[i][1] \notin M
  BY <1>2 DEF Has
<1> HIDE DEF q, M
<1>7. \A x \in Ids : ~Active(x, v)
  <2>1. \A x : q[1] # <<"join", x>>
    BY <1>0, <1>5
  <2>2. \A x \in Ids : x # None
    BY TcpAssumption DEF Ids, None
  <2> QED
    BY <1>1, <1>2, <2>1, <2>2 DEF WorkerSlots
<1>8. \A x \in Ids : Active(x, u) <=> x = w
  BY <1>3, <1>7 DEF Active
<1>9. WorkerSlots(r, u)
  <2>1. \A x \in Ids : u.worker[x].st = "new" => x = w
    BY <1>8 DEF Active
  <2>2. w = IF u.worker[w].show THEN u.show ELSE u.effect
    OBVIOUS
  <2>3. /\ u.show # None => u.show = w /\ u.worker[w].show
        /\ u.effect # None => u.effect = w /\ ~u.worker[w].show
    BY <1>2, <1>5
  <2>4. Active(w, u)
    BY <1>3, <1>8
  <2>5. /\ u.show # None => u.worker[u.show].show /\ ~u.worker[u.show].told /\ Active(u.show, u)
        /\ u.effect # None => /\ ~u.worker[u.effect].show /\ ~u.worker[u.effect].told
                              /\ Active(u.effect, u)
    BY <2>3, <2>4
  <2> QED
    BY <1>2, <1>8, <2>1, <2>2, <2>5 DEF WorkerSlots
<1>10. WorkerStates(u)
  <2>1. \A x \in Ids : x > u.begun => u.worker[x].st = "none"
    <3>1. ~(w > v.begun)
      BY <1>3, <1>4, TcpAssumption DEF Ids, Lights
    <3> QED
      BY <1>1, <3>1 DEF WorkerStates
  <2>2. u.show # None => u.show = w
    BY <1>2
  <2>3. \A x \in Ids : u.worker[x].st \in {"dark", "clear"} => x # w
    OBVIOUS
  <2> QED
    BY <1>1, <2>1, <2>2, <2>3 DEF WorkerStates
<1>11. \A i \in 1 .. Len(r) : r[i][1] \notin New /\ r[i][1] \notin {"light", "newShow", "newEffect"}
  BY <1>6 DEF M, New, LightSteps
<1>12. Order(r, u)
  <2>1. JoinsFirst(r)
    BY <1>2, NoJoins
  <2>2. AllAllowed(r, u)
    BY <1>11 DEF AllAllowed, Allowed
  <2>3. \A off, free : Quelled(r, off, free) /\ Freed(r, free)
    BY <1>11 DEF Quelled, Freed
  <2> QED
    BY <1>2, <2>1, <2>2, <2>3 DEF Order
<1>13. Purpose(r, u)
  <2>1. AllHarmless(r)
    <3>1. \A step : step[1] \notin M => Harmless(step)
      <4>1. <<"ifShow", FALSE>>[1] = "ifShow"
        OBVIOUS
      <4>2. /\ "ifShow" # "launch" /\ "light" # "launch" /\ "takeShow" # "launch"
            /\ "takeEffect" # "launch" /\ "join" # "launch" /\ "newEffect" # "launch"
        OBVIOUS
      <4>3. {"ifShow", "light", "takeShow", "takeEffect", "join", "newEffect"} \subseteq M
        BY <4>2 DEF M, LightSteps
      <4> QED
        BY <4>1, <4>3, Zenon DEF Harmless
    <3> QED
      BY <1>6, <3>1 DEF AllHarmless
  <2>2. ~Has(r, {"takeEffect"})
    BY <2>1, HarmlessHas DEF Has
  <2>3. CASE a[1] = "newShow"
    <3>1. u.effect = None /\ u.show # None /\ u.want = <<"scene", Off>>
      BY <1>2, <1>3, <1>4, <2>3
    <3>2. u.want[1] = "scene" /\ u.want[2] \in 0 .. 3
      BY <3>1 DEF Off
    <3> QED
      BY <2>1, <3>1, <3>2 DEF Purpose, Draw
  <2>4. CASE a[1] = "newEffect"
    <3>1. u.effect # None /\ u.show = None /\ u.want[1] = "effect" /\ u.serial
      BY <1>2, <1>3, <1>4, <2>4
    <3> QED
      BY <2>2, <3>1 DEF Purpose
  <2> QED
    BY <1>5, <2>3, <2>4
<1> QED
  BY <1>9, <1>10, <1>12, <1>13 DEF Sound

\* A worker is launched.
LEMMA Launches ==
    ASSUME NEW a \in Steps, NEW r \in Seq(Steps), NEW v, NEW u, NEW w, a = <<"launch", w>>,
           w \in Ids, Sound(<<a>> \o r, v), Lights(v),
           u.serial = v.serial, u.begun = v.begun, u.lamp = v.lamp, u.want = v.want,
           u.show = v.show, u.effect = v.effect, v.worker[w].st = "new",
           u.worker[w].st = "turn", u.worker[w].show <=> v.worker[w].show,
           u.worker[w].told <=> v.worker[w].told,
           \A x \in Ids \ {w} : u.worker[x] = v.worker[x]
    PROVE  Sound(r, u)
<1> DEFINE q == <<a>> \o r
           off == OffStep(v.serial)
           last == LastStep(v.serial, v.want[2])
           split == Split(v.serial, v.want[2])
<1>0. q # <<>> /\ q[1] = a
  BY Prefixed
<1>1. WorkerSlots(q, v) /\ WorkerStates(v) /\ Order(q, v) /\ Purpose(q, v)
  BY DEF Sound
<1>2. \A N : Has(q, N) <=> a[1] \in N \/ Has(r, N)
  BY HasPrefixed
<1>3. /\ RaisesLate(r) /\ NewLast(r) /\ ~Has(r, {"join"}) /\ AllAllowed(r, v)
      /\ Quelled(r, off, v.show = None \/ a[1] \in Stops)
      /\ Freed(r, v.effect = None \/ a[1] = "takeEffect")
  BY <1>1, OrderFirst
<1>4. off[1] = "light" /\ last[1] = "light" /\ a[1] = "launch"
  BY LightNames
<1>5. Draw(q, v) => \/ Draws(r, off, last, split, a = off)
                    \/ AllHarmless(r) /\ (v.lamp = Shown(v.serial, v.want[2]) \/ v.show # None)
  <2>1. a # last
    BY <1>4
  <2> QED
    BY <2>1, DrawFirst
<1> HIDE DEF q, off, last, split
<1>6. \A x \in Ids : /\ Active(x, u) <=> Active(x, v)
                     /\ u.worker[x].show <=> v.worker[x].show
                     /\ u.worker[x].told <=> v.worker[x].told
  BY DEF Active
<1>7. /\ v.show # None => v.show \in Ids
      /\ v.effect # None => v.effect \in Ids
  BY TcpAssumption DEF Lights, Ids, None
<1>8. WorkerSlots(r, u)
  <2>1. \A x \in Ids : u.worker[x].st # "new"
    <3>1. \A x \in Ids : v.worker[x].st = "new" => x = w
      BY <1>0, <1>1 DEF WorkerSlots
    <3> QED
      BY <3>1
  <2>2. \A x \in Ids : Active(x, u) => x = IF u.worker[x].show THEN u.show ELSE u.effect
    <3>1. \A x : q[1] # <<"join", x>>
      BY <1>0, <1>4
    <3>2. \A x \in Ids : Active(x, v) => x = IF v.worker[x].show THEN v.show ELSE v.effect
      BY <1>1, <3>1 DEF WorkerSlots
    <3> QED
      BY <1>6, <3>2
  <2>3. /\ u.show # None => u.worker[u.show].show /\ ~u.worker[u.show].told /\ Active(u.show, u)
        /\ u.effect # None => /\ ~u.worker[u.effect].show /\ ~u.worker[u.effect].told
                              /\ Active(u.effect, u)
    BY <1>1, <1>6, <1>7 DEF WorkerSlots
  <2>4. \A x, y \in Ids : Active(x, u) /\ Active(y, u) => x = y
    BY <1>1, <1>6 DEF WorkerSlots
  <2> QED
    BY <2>1, <2>2, <2>3, <2>4 DEF WorkerSlots
<1>9. WorkerStates(u)
  <2>1. \A x \in Ids : x > u.begun => u.worker[x].st = "none"
    BY <1>1 DEF WorkerStates
  <2>2. \A x \in Ids : u.worker[x].st \in {"dark", "clear"} => x # w
    OBVIOUS
  <2>3. u.show # None /\ u.worker[u.show].st = "clear" => u.lamp = Shown(u.serial, Off)
    BY <1>1, <1>7, <2>2 DEF WorkerStates
  <2> QED
    BY <1>1, <2>1, <2>2, <2>3 DEF WorkerStates
<1>10. Order(r, u)
  <2>1. a[1] \notin Stops /\ a[1] # "takeEffect"
    BY <1>4 DEF Stops
  <2>2. Quelled(r, off, v.show = None) /\ Freed(r, v.effect = None)
    BY <1>3, <2>1, QuelledMore
  <2>3. JoinsFirst(r)
    BY <1>3, NoJoins
  <2>4. AllAllowed(r, u)
    <3>1. \A x \in Ids : v.worker[x].st = "none" => u.worker[x].st = "none"
      OBVIOUS
    <3>2. v.begun \in Nat /\ v.begun <= u.begun
      BY DEF Lights
    <3> QED
      BY <1>3, <3>1, <3>2, StillAllowed
  <2> QED
    BY <1>3, <2>2, <2>3, <2>4 DEF Order, off
<1>11. Purpose(r, u)
  <2>1. \A N \in {{"takeEffect"}, {"newEffect"}, {"light"}, Stops} : Has(r, N) <=> Has(q, N)
    BY <1>2, <1>4 DEF Stops
  <2>2. Draw(q, v) => Draw(r, u)
    <3>1. a # off
      BY <1>4
    <3>2. Draws(r, off, last, split, a = off) => Draws(r, off, last, split, u.lamp = {})
      BY <3>1, DrawsLess
    <3> QED
      BY <1>5, <3>2 DEF Draw, off, last, split
  <2> QED
    BY <1>1, <2>1, <2>2 DEF Purpose
<1> QED
  BY <1>8, <1>9, <1>10, <1>11 DEF Sound

LEMMA SlotNumbers ==
    ASSUME NEW v, Lights(v)
    PROVE  /\ v.show # None => v.show \in Ids
           /\ v.effect # None => v.effect \in Ids
  BY TcpAssumption DEF Lights, Ids, None

\* What is said of the workers when one of them, w, goes on.
LEMMA OneGoesOn ==
    ASSUME NEW s \in Seq(Steps), NEW v, NEW u, NEW w \in Ids, Sound(s, v), Lights(v),
           u.serial = v.serial, u.begun = v.begun, u.want = v.want,
           u.show = v.show, u.effect = v.effect,
           v.worker[w].st \in {"turn", "write", "dark"},
           u.worker[w].st \in {"turn", "write", "dark", "clear"},
           u.worker[w].show <=> v.worker[w].show, u.worker[w].told <=> v.worker[w].told,
           u.worker[w].st = "dark" => u.worker[w].show /\ u.worker[w].out = <<OffPacket(u.serial)>>,
           u.worker[w].st = "clear" => IF u.worker[w].show THEN u.lamp = Shown(u.serial, Off)
                                                           ELSE u.worker[w].told,
           u.lamp = v.lamp \/ v.worker[w].st \in {"write", "dark"},
           \A x \in Ids \ {w} : u.worker[x] = v.worker[x]
    PROVE  WorkerSlots(s, u) /\ WorkerStates(u) /\ Order(s, u)
<1>1. WorkerSlots(s, v) /\ WorkerStates(v) /\ Order(s, v)
  BY DEF Sound
<1>2. \A x \in Ids : /\ Active(x, u) <=> Active(x, v)
                     /\ u.worker[x].show <=> v.worker[x].show
                     /\ u.worker[x].told <=> v.worker[x].told
                     /\ u.worker[x].st = "new" <=> v.worker[x].st = "new"
                     /\ u.worker[x].st = "none" <=> v.worker[x].st = "none"
  BY DEF Active
<1>3. /\ v.show # None => v.show \in Ids
      /\ v.effect # None => v.effect \in Ids
  BY SlotNumbers
<1>4. WorkerSlots(s, u)
  <2>1. \A x \in Ids : Active(x, u) => \/ x = IF u.worker[x].show THEN u.show ELSE u.effect
                                       \/ s # <<>> /\ s[1] = <<"join", x>>
    BY <1>1, <1>2 DEF WorkerSlots
  <2>2. \A x \in Ids : u.worker[x].st = "new" => s # <<>> /\ s[1] = <<"launch", x>>
    BY <1>1, <1>2 DEF WorkerSlots
  <2>3. /\ u.show # None => u.worker[u.show].show /\ ~u.worker[u.show].told /\ Active(u.show, u)
        /\ u.effect # None => /\ ~u.worker[u.effect].show /\ ~u.worker[u.effect].told
                              /\ Active(u.effect, u)
    BY <1>1, <1>2, <1>3 DEF WorkerSlots
  <2>4. \A x, y \in Ids : Active(x, u) /\ Active(y, u) => x = y
    BY <1>1, <1>2 DEF WorkerSlots
  <2> QED
    BY <2>1, <2>2, <2>3, <2>4 DEF WorkerSlots
<1>5. WorkerStates(u)
  <2>1. \A x \in Ids : x > u.begun => u.worker[x].st = "none"
    BY <1>1, <1>2 DEF WorkerStates
  <2>2. \A x \in Ids : u.worker[x].st = "dark" =>
            u.worker[x].show /\ u.worker[x].out = <<OffPacket(u.serial)>>
    BY <1>1 DEF WorkerStates
  <2>3. \A x \in Ids : u.worker[x].st = "clear" /\ ~u.worker[x].show => u.worker[x].told
    BY <1>1 DEF WorkerStates
  <2>4. ASSUME u.show # None, u.worker[u.show].st = "clear"
        PROVE  u.lamp = Shown(u.serial, Off)
    <3>1. CASE u.show = w
      <4>1. u.worker[w].show
        BY <1>1, <2>4, <3>1 DEF WorkerSlots
      <4> QED
        BY <2>4, <3>1, <4>1
    <3>2. CASE u.show # w
      <4>1. v.worker[v.show].st = "clear" /\ v.lamp = Shown(v.serial, Off)
        BY <1>1, <1>3, <2>4, <3>2 DEF WorkerStates
      <4>2. Active(w, v) /\ Active(v.show, v)
        BY <4>1 DEF Active
      <4>3. w = v.show
        BY <1>1, <1>3, <2>4, <4>2 DEF WorkerSlots
      <4> QED
        BY <3>2, <4>3
    <3> QED
      BY <3>1, <3>2
  <2> QED
    BY <2>1, <2>2, <2>3, <2>4 DEF WorkerStates
<1>6. Order(s, u)
  <2>1. AllAllowed(s, u)
    <3>1. v.begun \in Nat /\ v.begun <= u.begun
      BY DEF Lights
    <3> QED
      BY <1>1, <1>2, <3>1, StillAllowed DEF Order
  <2> QED
    BY <1>1, <2>1 DEF Order
<1> QED
  BY <1>4, <1>5, <1>6

\* The next scene of a worker, or its end.
LEMMA Turns ==
    ASSUME NEW s \in Seq(Steps), NEW v, NEW u, NEW w \in Ids, Sound(s, v), Lights(v),
           u.serial = v.serial, u.begun = v.begun, u.want = v.want,
           u.show = v.show, u.effect = v.effect, u.lamp = v.lamp,
           v.worker[w].st = "turn", u.worker[w].st \in {"write", "dark", "clear"},
           u.worker[w].show <=> v.worker[w].show, u.worker[w].told <=> v.worker[w].told,
           u.worker[w].st = "dark" => u.worker[w].show /\ u.worker[w].out = <<OffPacket(u.serial)>>,
           u.worker[w].st = "clear" => ~u.worker[w].show /\ u.worker[w].told,
           \A x \in Ids \ {w} : u.worker[x] = v.worker[x]
    PROVE  Sound(s, u)
<1>1. WorkerSlots(s, u) /\ WorkerStates(u) /\ Order(s, u)
  BY OneGoesOn
<1>2. Purpose(s, v)
  BY DEF Sound
<1>3. Draw(s, v) <=> Draw(s, u)
  BY DEF Draw
<1>4. Purpose(s, u)
  BY <1>2, <1>3 DEF Purpose
<1> QED
  BY <1>1, <1>4 DEF Sound

\* No worker is about when a thread draws the last packet of a split scene
\* next, and none but a show when it draws nothing more.
LEMMA WhoDraws ==
    ASSUME NEW s \in Seq(Steps), NEW v, NEW w \in Ids, Sound(s, v), Lights(v), Active(w, v),
           v.want[1] = "scene", NEW lamps
    PROVE  Draws(s, OffStep(v.serial), LastStep(v.serial, v.want[2]), Split(v.serial, v.want[2]),
                 lamps = {})
           \/ (AllHarmless(s) /\ v.show = w)
<1> DEFINE off == OffStep(v.serial)
           last == LastStep(v.serial, v.want[2])
           split == Split(v.serial, v.want[2])
<1>1. WorkerSlots(s, v) /\ Order(s, v) /\ Purpose(s, v)
  BY DEF Sound
<1>2. Draw(s, v) /\ v.want[2] \in 0 .. 3 /\ (v.effect = None \/ Has(s, {"takeEffect"}))
  BY <1>1 DEF Purpose
<1>3. last[1] = "light"
  BY LightNames
<1>4. w # None
  BY TcpAssumption DEF Ids, None
<1>5. CASE AllHarmless(s) /\ v.show = w
  BY <1>5
<1>6. CASE AllHarmless(s) /\ v.show # w
  <2>1. ~(s # <<>> /\ s[1] = <<"join", w>>)
    <3> SUFFICES ASSUME s # <<>>, s[1] = <<"join", w>> PROVE FALSE
      OBVIOUS
    <3>1. 1 \in 1 .. Len(s)
      BY Shorter
    <3>2. Harmless(s[1])
      BY <1>6, <3>1 DEF AllHarmless
    <3>3. s[1][1] = "join"
      OBVIOUS
    <3> QED
      BY <3>2, <3>3 DEF Harmless
  <2>2. v.effect = w
    BY <1>1, <1>6, <2>1 DEF WorkerSlots
  <2>3. Has(s, {"takeEffect"})
    BY <1>2, <1>4, <2>2
  <2> QED
    BY <1>6, <2>3, HarmlessHas DEF Has
<1>7. CASE Draws(s, off, last, split, v.lamp = {})
  <2>1. PICK k \in 1 .. Len(s) : /\ s[k] = last
                                 /\ \A j \in 1 .. Len(s) : j > k => Harmless(s[j])
                                 /\ split => IF k = 1 THEN v.lamp = {} ELSE s[k - 1] = off
    BY <1>7 DEF Draws
  <2>2. ASSUME k = 1, split
        PROVE  FALSE
    <3>1. s # <<>> /\ s[1] = last
      BY <2>1, <2>2, EmptySeq
    <3>2. last # off
      <4>1. v.serial /\ v.want[2] \in {Left, Right}
        BY <2>2 DEF split, Split
      <4>2. last[2] = LastPacket(v.serial, v.want[2]) /\ off[2] = OffPacket(v.serial)
        BY DEF last, off, LastStep, OffStep
      <4>3. LastPacket(v.serial, v.want[2]) \in {<<"left", 1>>, <<"right", 1>>}
        BY <4>1 DEF LastPacket, Off, On, Left, Right
      <4>4. OffPacket(v.serial) = <<"both", 0>>
        BY <4>1 DEF OffPacket
      <4> QED
        BY <4>2, <4>3, <4>4
    <3>3. v.show = None
      <4>1. 1 \in 1 .. Len(s) /\ s[1][1] = "light" /\ s[1] # off
        BY <1>3, <2>1, <2>2, <3>1, <3>2
      <4>2. v.show = None \/ Before(s, 1, Stops)
        BY <1>1, <4>1 DEF Order, Quelled, off
      <4>3. ~Before(s, 1, Stops)
        BY DEF Before
      <4> QED
        BY <4>2, <4>3
    <3>4. v.effect = None
      <4>1. \A j \in 1 .. Len(s) : s[j][1] # "takeEffect"
        <5> SUFFICES ASSUME NEW j \in 1 .. Len(s), s[j][1] = "takeEffect" PROVE FALSE
          OBVIOUS
        <5>1. j # 1
          BY <1>3, <3>1
        <5>2. j > k
          BY <2>2, <5>1
        <5> QED
          BY <2>1, <5>2 DEF Harmless
      <4> QED
        BY <1>2, <4>1 DEF Has
    <3>5. s[1] # <<"join", w>>
      BY <1>3, <3>1
    <3> QED
      BY <1>1, <1>4, <3>3, <3>4, <3>5 DEF WorkerSlots
  <2> QED
    BY <2>1, <2>2 DEF Draws, off, last, split
<1> QED
  BY <1>2, <1>5, <1>6, <1>7 DEF Draw, off, last, split

\* A worker writes a packet.
LEMMA WorkerWrites ==
    ASSUME NEW s \in Seq(Steps), NEW v, NEW u, NEW w \in Ids, Sound(s, v), Lights(v),
           u.serial = v.serial, u.begun = v.begun, u.want = v.want,
           u.show = v.show, u.effect = v.effect,
           v.worker[w].st = "write" => u.worker[w].st \in {"write", "turn"},
           v.worker[w].st = "dark" => u.worker[w].st = "clear" /\ u.lamp = Shown(u.serial, Off),
           v.worker[w].st \in {"write", "dark"},
           u.worker[w].show <=> v.worker[w].show, u.worker[w].told <=> v.worker[w].told,
           \A x \in Ids \ {w} : u.worker[x] = v.worker[x]
    PROVE  Sound(s, u)
<1>1. WorkerSlots(s, u) /\ WorkerStates(u) /\ Order(s, u)
  <2>1. v.worker[w].st = "dark" => v.worker[w].show
    BY DEF Sound, WorkerStates
  <2>2. u.worker[w].st \in {"turn", "write", "dark", "clear"} /\ u.worker[w].st # "dark"
    OBVIOUS
  <2>3. u.worker[w].st = "clear" => u.worker[w].show /\ u.lamp = Shown(u.serial, Off)
    BY <2>1
  <2> QED
    BY <2>2, <2>3, OneGoesOn
<1>2. Purpose(s, v)
  BY DEF Sound
<1>3. v.want[1] = "scene" => Draw(s, u)
  <2>1. Active(w, v) /\ w # None
    BY TcpAssumption DEF Active, Ids, None
  <2>2. ASSUME v.want[1] = "scene"
        PROVE  \/ Draws(s, OffStep(v.serial), LastStep(v.serial, v.want[2]),
                        Split(v.serial, v.want[2]), u.lamp = {})
               \/ AllHarmless(s) /\ v.show = w
    BY <2>1, <2>2, WhoDraws
  <2> QED
    BY <2>1, <2>2 DEF Draw
<1>4. Purpose(s, u)
  BY <1>2, <1>3 DEF Purpose
<1> QED
  BY <1>1, <1>4 DEF Sound

\* A worker is over, and its slot is cleared.
LEMMA WorkerEnds ==
    ASSUME NEW s \in Seq(Steps), NEW v, NEW u, NEW w \in Ids, Sound(s, v), Lights(v),
           u.serial = v.serial, u.begun = v.begun, u.want = v.want, u.lamp = v.lamp,
           u.show = IF v.show = w THEN None ELSE v.show,
           u.effect = IF v.effect = w THEN None ELSE v.effect,
           v.worker[w].st = "clear", u.worker[w].st = "done",
           \A x \in Ids \ {w} : u.worker[x] = v.worker[x]
    PROVE  Sound(s, u)
<1>1. WorkerSlots(s, v) /\ WorkerStates(v) /\ Order(s, v) /\ Purpose(s, v)
  BY DEF Sound
<1>2. w # None
  BY TcpAssumption DEF Ids, None
<1>3. v.effect # w /\ u.effect = v.effect
  <2>1. v.effect = w => ~v.worker[w].show /\ ~v.worker[w].told
    BY <1>1, <1>2 DEF WorkerSlots
  <2> QED
    BY <1>1, <2>1 DEF WorkerStates
<1>4. /\ v.show # None => v.show \in Ids
      /\ v.effect # None => v.effect \in Ids
  BY SlotNumbers
<1>5. \A x \in Ids : Active(x, u) <=> Active(x, v) /\ x # w
  BY DEF Active
<1>6. WorkerSlots(s, u)
  <2>1. \A x \in Ids : Active(x, u) => \/ x = IF u.worker[x].show THEN u.show ELSE u.effect
                                       \/ s # <<>> /\ s[1] = <<"join", x>>
    BY <1>1, <1>3, <1>5 DEF WorkerSlots
  <2>2. \A x \in Ids : u.worker[x].st = "new" => s # <<>> /\ s[1] = <<"launch", x>>
    BY <1>1 DEF WorkerSlots
  <2>3. u.show # None => u.worker[u.show].show /\ ~u.worker[u.show].told /\ Active(u.show, u)
    BY <1>1, <1>4, <1>5 DEF WorkerSlots
  <2>4. u.effect # None => /\ ~u.worker[u.effect].show /\ ~u.worker[u.effect].told
                           /\ Active(u.effect, u)
    BY <1>1, <1>3, <1>4, <1>5 DEF WorkerSlots
  <2>5. \A x, y \in Ids : Active(x, u) /\ Active(y, u) => x = y
    BY <1>1, <1>5 DEF WorkerSlots
  <2> QED
    BY <2>1, <2>2, <2>3, <2>4, <2>5 DEF WorkerSlots
<1>7. WorkerStates(u)
  <2>1. \A x \in Ids : x > u.begun => u.worker[x].st = "none"
    BY <1>1 DEF WorkerStates
  <2>2. \A x \in Ids : u.worker[x].st \in {"dark", "clear"} => x # w
    OBVIOUS
  <2>3. u.show # None => u.show = v.show /\ u.show # w
    OBVIOUS
  <2>4. u.show # None /\ u.worker[u.show].st = "clear" => u.lamp = Shown(u.serial, Off)
    BY <1>1, <1>4, <2>3 DEF WorkerStates
  <2> QED
    BY <1>1, <2>1, <2>2, <2>4 DEF WorkerStates
<1>8. Order(s, u)
  <2>1. AllAllowed(s, u)
    <3>1. v.begun \in Nat /\ v.begun <= u.begun
      BY DEF Lights
    <3>2. \A x \in Ids : v.worker[x].st = "none" => u.worker[x].st = "none"
      OBVIOUS
    <3> QED
      BY <1>1, <3>1, <3>2, StillAllowed DEF Order
  <2>2. v.show = None => u.show = None
    BY <1>2
  <2>3. Quelled(s, OffStep(v.serial), u.show = None)
    BY <1>1, <2>2, QuelledMore DEF Order
  <2> QED
    BY <1>1, <1>3, <2>1, <2>3 DEF Order
<1>9. Purpose(s, u)
  <2>1. ASSUME v.want[1] = "scene" PROVE Draw(s, u)
    <3>1. Draw(s, v)
      BY <1>1, <2>1 DEF Purpose
    <3>2. CASE AllHarmless(s) /\ v.show = w
      <4>1. ~Has(s, {"light"})
        BY <3>2, HarmlessHas DEF Has
      <4>2. v.want = <<"scene", Off>>
        BY <1>1, <1>2, <2>1, <3>2, <4>1 DEF Purpose
      <4>3. v.lamp = Shown(v.serial, Off) /\ v.want[2] = Off
        BY <1>1, <1>2, <3>2, <4>2 DEF WorkerStates
      <4> QED
        BY <3>2, <4>3 DEF Draw
    <3>3. CASE ~(AllHarmless(s) /\ v.show = w)
      <4>1. v.show # w /\ AllHarmless(s) => u.show = v.show
        OBVIOUS
      <4> QED
        BY <3>1, <3>3, <4>1 DEF Draw
    <3> QED
      BY <3>2, <3>3
  <2> QED
    BY <1>1, <1>3, <2>1 DEF Purpose
<1> QED
  BY <1>6, <1>7, <1>8, <1>9 DEF Sound

\* The steps of a handler are in order, where the slots in F are free already.
Sorted(s, v, F) ==
    /\ RaisesLate(s) /\ NewLast(s) /\ ~Has(s, {"join"}) /\ AllAllowed(s, v)
    /\ Quelled(s, OffStep(v.serial), "show" \in F) /\ Freed(s, "effect" \in F)

\* The last thing they draw is the scene x, whatever the lamps show before.
Paints(s, port, x) ==
    \A blank \in BOOLEAN : Draws(s, OffStep(port), LastStep(port, x), Split(port, x), blank)

LEMMA SortedOrder ==
    ASSUME NEW s, NEW v, NEW F, Sorted(s, v, F), "show" \in F => v.show = None,
           "effect" \in F => v.effect = None
    PROVE  Order(s, v)
<1>1. Quelled(s, OffStep(v.serial), v.show = None) /\ Freed(s, v.effect = None)
  BY QuelledMore DEF Sorted
<1>2. JoinsFirst(s)
  BY NoJoins DEF Sorted
<1> QED
  BY <1>1, <1>2 DEF Sorted, Order

LEMMA SortedWithout ==
    ASSUME NEW s \in Seq(Steps), ~Has(s, LightSteps), NEW v, NEW F
    PROVE  Sorted(s, v, F)
<1>1. ~Has(s, {"join"})
  BY WithoutLights, LightStepsAre
<1> QED
  BY <1>1, WithoutLights DEF Sorted

LEMMA SortedFirst ==
    ASSUME NEW a \in Steps, a[1] \notin New \cup Raising \cup {"join"}, NEW r \in Seq(Steps), NEW v,
           NEW F, NEW G, Sorted(r, v, G), "show" \in G => "show" \in F \/ a[1] \in Stops,
           "effect" \in G => "effect" \in F \/ a[1] = "takeEffect",
           a[1] = "light" /\ a # OffStep(v.serial) => "show" \in F
    PROVE  Sorted(<<a>> \o r, v, F)
<1> DEFINE q == <<a>> \o r
           fs == "show" \in F
           fe == "effect" \in F
           off == OffStep(v.serial)
<1>1. fs \in BOOLEAN /\ fe \in BOOLEAN
  OBVIOUS
<1>2. /\ RaisesLate(r) /\ NewLast(r) /\ ~Has(r, {"join"}) /\ AllAllowed(r, v)
      /\ Quelled(r, off, "show" \in G) /\ Freed(r, "effect" \in G)
  BY DEF Sorted
<1>3. /\ a[1] = "light" /\ a # off => fs
      /\ "show" \in G => fs \/ a[1] \in Stops
      /\ "effect" \in G => fe \/ a[1] = "takeEffect"
  OBVIOUS
<1> HIDE DEF fs, fe, off
<1>4. RaisesLate(q) /\ NewLast(q)
  BY <1>2, RaisesPrefixed, NewPrefixed
<1>5. ~Has(q, {"join"})
  BY <1>2, HasPrefixed
<1>6. AllAllowed(q, v)
  <2>1. Allowed(a, v)
    BY DEF Allowed, New
  <2> QED
    BY <1>2, <2>1, EachPrefixed
<1>7. Quelled(q, off, fs)
  <2>1. Quelled(r, off, fs \/ a[1] \in Stops)
    BY <1>2, <1>3, QuelledMore
  <2>2. Quelled(q, off, fs) <=> /\ a[1] \in New \/ (a[1] = "light" /\ a # off) => fs
                                /\ Quelled(r, off, fs \/ a[1] \in Stops)
    BY <1>1, QuelledPrefixed
  <2> QED
    BY <1>3, <2>1, <2>2
<1>8. Freed(q, fe)
  <2>1. Freed(r, fe \/ a[1] = "takeEffect")
    BY <1>2, <1>3, QuelledMore
  <2>2. Freed(q, fe) <=> (a[1] \in New => fe) /\ Freed(r, fe \/ a[1] = "takeEffect")
    BY <1>1, QuelledPrefixed
  <2> QED
    BY <2>1, <2>2
<1> QED
  BY <1>4, <1>5, <1>6, <1>7, <1>8 DEF Sorted, fs, fe, off

LEMMA PaintsFirst ==
    ASSUME NEW a \in Steps, NEW r \in Seq(Steps), NEW port \in BOOLEAN, NEW x, Paints(r, port, x)
    PROVE  Paints(<<a>> \o r, port, x)
<1> DEFINE off == OffStep(port)
           last == LastStep(port, x)
           split == Split(port, x)
           dark == a = off
<1>1. split \in BOOLEAN /\ dark \in BOOLEAN
  BY DEF Split
<1>2. Draws(r, off, last, split, dark)
  BY <1>1 DEF Paints
<1> HIDE DEF off, last, split, dark
<1>3. ASSUME NEW blank \in BOOLEAN
      PROVE  Draws(<<a>> \o r, off, last, split, blank)
  <2>1. Draws(<<a>> \o r, off, last, split, blank) <=>
            \/ a = last /\ AllHarmless(r) /\ (split => blank)
            \/ Draws(r, off, last, split, a = off)
    BY <1>1, DrawsPrefixed
  <2> QED
    BY <1>2, <2>1 DEF dark
<1> QED
  BY <1>3 DEF Paints, off, last, split

\* A scene is its last step, after a step that turns the lamps off if it is split.
LEMMA SceneIs ==
    ASSUME serial \in BOOLEAN, NEW x \in 0 .. 6, serial => x <= 3, NEW r \in Seq(Steps)
    PROVE  /\ OffStep(serial) \in Steps /\ LastStep(serial, x) \in Steps
           /\ Scene(x) \o r = IF Split(serial, x) THEN <<OffStep(serial)>> \o (<<LastStep(serial, x)>> \o r)
                                                  ELSE <<LastStep(serial, x)>> \o r
<1> DEFINE off == OffStep(serial)
           last == LastStep(serial, x)
<1>1. off \in Steps /\ last \in Steps
  <2>1. OffPacket(serial) \in PacketsOfLamps
    BY DEF OffPacket, PacketsOfLamps
  <2>2. LastPacket(serial, x) \in PacketsOfLamps
    <3>1. CASE ~serial
      BY <3>1 DEF LastPacket, PacketsOfLamps
    <3>2. CASE serial
      <4>1. x \in {0, 1, 2, 3}
        BY <3>2
      <4>2. LastPacket(serial, x) \in {<<"both", 0>>, <<"both", 1>>, <<"left", 1>>, <<"right", 1>>}
        BY <3>2, <4>1 DEF LastPacket, Off, On, Left, Right
      <4>3. /\ <<"both", 0>> \in PacketsOfLamps /\ <<"both", 1>> \in PacketsOfLamps
            /\ <<"left", 1>> \in PacketsOfLamps /\ <<"right", 1>> \in PacketsOfLamps
        BY <3>2 DEF PacketsOfLamps, Sides
      <4> QED
        BY <4>2, <4>3
    <3> QED
      BY <3>1, <3>2
  <2>3. \A p \in PacketsOfLamps : <<"light", p>> \in Steps
    BY DEF Steps
  <2> QED
    BY <2>1, <2>2, <2>3 DEF OffStep, LastStep
<1>2. Packets(x) = IF Split(serial, x) THEN <<OffPacket(serial), LastPacket(serial, x)>>
                                       ELSE <<LastPacket(serial, x)>>
  <2>1. CASE ~serial
    BY <2>1 DEF Packets, Split, LastPacket
  <2>2. CASE serial
    <3>1. x = 0 \/ x = 1 \/ x = 2 \/ x = 3
      BY <2>2
    <3>2. CASE x = 0
      BY <2>2, <3>2 DEF Packets, Split, LastPacket, Off, On, Left, Right
    <3>3. CASE x = 1
      BY <2>2, <3>3 DEF Packets, Split, LastPacket, Off, On, Left, Right
    <3>4. CASE x = 2
      BY <2>2, <3>4 DEF Packets, Split, LastPacket, OffPacket, Off, On, Left, Right
    <3>5. CASE x = 3
      BY <2>2, <3>5 DEF Packets, Split, LastPacket, OffPacket, Off, On, Left, Right
    <3> QED
      BY <3>1, <3>2, <3>3, <3>4, <3>5
  <2> QED
    BY <2>1, <2>2
<1>3. Scene(x) = IF Split(serial, x) THEN <<off, last>> ELSE <<last>>
  <2>1. CASE Split(serial, x)
    <3>1. Packets(x) = <<OffPacket(serial), LastPacket(serial, x)>>
      BY <1>2, <2>1
    <3>2. Scene(x) = <<<<"light", OffPacket(serial)>>, <<"light", LastPacket(serial, x)>>>>
      BY <3>1 DEF Scene
    <3> QED
      BY <2>1, <3>2 DEF OffStep, LastStep
  <2>2. CASE ~Split(serial, x)
    <3>1. Packets(x) = <<LastPacket(serial, x)>>
      BY <1>2, <2>2
    <3>2. Scene(x) = <<<<"light", LastPacket(serial, x)>>>>
      BY <3>1 DEF Scene
    <3> QED
      BY <2>2, <3>2 DEF LastStep
  <2> QED
    BY <2>1, <2>2
<1> HIDE DEF off, last
<1>4. /\ <<off>> \in Seq(Steps) /\ <<last>> \in Seq(Steps)
      /\ <<off, last>> = <<off>> \o <<last>>
  <2>1. <<off>> \in Seq(Steps) /\ <<last>> \in Seq(Steps) /\ <<off, last>> \in Seq(Steps)
    BY <1>1
  <2>2. /\ <<off>> \o <<last>> \in Seq(Steps) /\ Len(<<off>> \o <<last>>) = Len(<<last>>) + 1
        /\ (<<off>> \o <<last>>)[1] = off
        /\ \A i \in 1 .. Len(<<last>>) : (<<off>> \o <<last>>)[i + 1] = <<last>>[i]
    BY <1>1, <2>1, Prefixed
  <2>3. Len(<<last>>) = 1 /\ <<last>>[1] = last /\ 1 \in 1 .. 1
    OBVIOUS
  <2>4. Len(<<off>> \o <<last>>) = 2 /\ (<<off>> \o <<last>>)[2] = last
    <3>1. 1 \in 1 .. Len(<<last>>) /\ 1 + 1 = 2
      BY <2>3
    <3> QED
      BY <2>2, <2>3, <3>1
  <2>5. /\ Len(<<off, last>>) = 2 /\ <<off, last>>[1] = off /\ <<off, last>>[2] = last
        /\ \A i \in 1 .. 2 : i = 1 \/ i = 2
    OBVIOUS
  <2>6. \A i \in 1 .. Len(<<off, last>>) : <<off, last>>[i] = (<<off>> \o <<last>>)[i]
    BY <2>2, <2>4, <2>5
  <2> QED
    BY <2>1, <2>2, <2>4, <2>5, <2>6, SeqEqual
<1>5. (<<off>> \o <<last>>) \o r = <<off>> \o (<<last>> \o r)
  BY <1>4, ConcatAssociative
<1> QED
  BY <1>1, <1>3, <1>4, <1>5 DEF off, last

LEMMA SortedMore ==
    ASSUME NEW s, NEW v, NEW F, NEW G, Sorted(s, v, G), "show" \in G => "show" \in F,
           "effect" \in G => "effect" \in F
    PROVE  Sorted(s, v, F)
  BY QuelledMore DEF Sorted

LEMMA DrawsNow ==
    ASSUME NEW a \in Steps, NEW r \in Seq(Steps), NEW off, NEW last, NEW split \in BOOLEAN,
           NEW blank \in BOOLEAN, a = last, AllHarmless(r), split => blank
    PROVE  Draws(<<a>> \o r, off, last, split, blank)
  BY DrawsPrefixed

LEMMA DrawsLater ==
    ASSUME NEW a \in Steps, NEW r \in Seq(Steps), NEW off, NEW last, NEW split \in BOOLEAN,
           NEW blank \in BOOLEAN, NEW dark \in BOOLEAN, dark => a = off,
           Draws(r, off, last, split, dark)
    PROVE  Draws(<<a>> \o r, off, last, split, blank)
<1>1. Draws(<<a>> \o r, off, last, split, blank) <=>
          \/ a = last /\ AllHarmless(r) /\ (split => blank)
          \/ Draws(r, off, last, split, a = off)
  BY DrawsPrefixed
<1>2. Draws(r, off, last, split, a = off)
  BY DrawsLess
<1> QED
  BY <1>1, <1>2

\* The parts of the handlers, before others.
LEMMA ScenePart ==
    ASSUME serial \in BOOLEAN, NEW x \in 0 .. 6, serial => x <= 3, NEW r \in Seq(Steps), NEW v,
           v.serial = serial
    PROVE  /\ Scene(x) \o r \in Seq(Steps)
           /\ \A N : Has(Scene(x) \o r, N) <=> "light" \in N \/ Has(r, N)
           /\ AllHarmless(r) => Paints(Scene(x) \o r, serial, x)
           /\ \A y : Paints(r, serial, y) => Paints(Scene(x) \o r, serial, y)
           /\ \A F : Sorted(r, v, F) /\ ("show" \in F \/ x = Off) => Sorted(Scene(x) \o r, v, F)
<1> DEFINE off == OffStep(serial)
           last == LastStep(serial, x)
           split == Split(serial, x)
           p == <<last>> \o r
           q == <<off>> \o p
           s == Scene(x) \o r
<1>1. off \in Steps /\ last \in Steps /\ s = IF split THEN q ELSE p
  BY SceneIs
<1>2. off[1] = "light" /\ last[1] = "light"
  BY LightNames
<1>3. x = Off => last = off /\ ~split
  BY LastOff
<1>4. split \in BOOLEAN
  BY DEF Split
<1> HIDE DEF off, last, split
<1>5. p \in Seq(Steps)
  BY <1>1, Prefixed
<1>6. q \in Seq(Steps)
  BY <1>1, <1>5, Prefixed
<1>7. \A N : (Has(p, N) <=> "light" \in N \/ Has(r, N)) /\ (Has(q, N) <=> "light" \in N \/ Has(p, N))
  BY <1>1, <1>2, <1>5, HasPrefixed
<1>8. /\ \A y : Paints(r, serial, y) => Paints(p, serial, y)
      /\ \A y : Paints(p, serial, y) => Paints(q, serial, y)
  BY <1>1, <1>5, PaintsFirst
<1>9. ASSUME AllHarmless(r)
      PROVE  Paints(s, serial, x)
  <2>1. CASE ~split
    <3>1. ASSUME NEW blank \in BOOLEAN
          PROVE  Draws(p, off, last, split, blank)
      BY <1>1, <1>4, <1>9, <2>1, DrawsNow
    <3> QED
      BY <1>1, <2>1, <3>1 DEF Paints, off, last, split
  <2>2. CASE split
    <3>1. ASSUME NEW dark \in BOOLEAN, dark
          PROVE  Draws(p, off, last, split, dark)
      BY <1>1, <1>4, <1>9, <3>1, DrawsNow
    <3>2. ASSUME NEW blank \in BOOLEAN
          PROVE  Draws(q, off, last, split, blank)
      <4>1. ASSUME NEW dark \in BOOLEAN, dark
            PROVE  Draws(q, off, last, split, blank)
        <5>1. Draws(p, off, last, split, dark)
          BY <3>1, <4>1
        <5> QED
          BY <1>1, <1>4, <1>5, <4>1, <5>1, DrawsLater
      <4> QED
        BY <4>1
    <3> QED
      BY <1>1, <2>2, <3>2 DEF Paints, off, last, split
  <2> QED
    BY <2>1, <2>2
<1>10. ASSUME NEW F, Sorted(r, v, F), "show" \in F \/ x = Off
       PROVE  Sorted(s, v, F)
  <2>0. "light" \notin New \cup Raising \cup {"join"} /\ off = OffStep(v.serial)
    BY DEF New, Raising, off
  <2>1. last # off => "show" \in F
    BY <1>3, <1>10
  <2>2. Sorted(p, v, F)
    BY <1>1, <1>2, <1>10, <2>0, <2>1, SortedFirst
  <2>3. Sorted(q, v, F)
    BY <1>1, <1>2, <1>5, <2>0, <2>2, SortedFirst
  <2> QED
    BY <1>1, <2>2, <2>3
<1> HIDE DEF p, q
<1>11. s \in Seq(Steps) /\ \A N : Has(s, N) <=> "light" \in N \/ Has(r, N)
  BY <1>1, <1>5, <1>6, <1>7
<1>12. \A y : Paints(r, serial, y) => Paints(s, serial, y)
  BY <1>1, <1>8
<1> QED
  BY <1>9, <1>10, <1>11, <1>12

\* A frame begins; no other is at the lights.
Entered(v, u) ==
    /\ Lights(v) /\ Sound(<<>>, v)
    /\ v.begun + 1 \in Ids /\ u.begun = v.begun + 1
    /\ u.serial = v.serial /\ u.show = v.show /\ u.effect = v.effect /\ u.worker = v.worker
    /\ u.lamp = v.lamp

\* How the lights are left by the frames before.
LEMMA Left0 ==
    ASSUME NEW v, NEW u, Entered(v, u)
    PROVE  /\ v.want[1] \in {"scene", "any"} => v.effect = None
           /\ v.want[1] = "effect" /\ v.serial => v.effect # None
           /\ ~v.serial => v.effect = None
           /\ v.show # None => v.want = <<"scene", Off>>
           /\ v.want[1] = "scene" => /\ v.want[2] \in 0 .. 3
                                     /\ v.lamp = Shown(v.serial, v.want[2]) \/ v.show # None
           /\ u.worker[u.begun].st = "none"
<1>1. <<>> \in Seq(Steps) /\ ~Has(<<>>, LightSteps)
  BY DEF Has
<1>2. /\ \A N \in SUBSET LightSteps : ~Has(<<>>, N)
      /\ \A off, last, split, blank : last[1] = "light" => ~Draws(<<>>, off, last, split, blank)
  BY <1>1, WithoutLights
<1>3. Purpose(<<>>, v) /\ WorkerStates(v)
  BY DEF Entered, Sound
<1>4. u.worker[u.begun].st = "none"
  <2>1. v.begun \in Nat
    BY DEF Entered, Lights
  <2>2. v.begun + 1 > v.begun
    BY <2>1
  <2> QED
    BY <1>3, <2>2 DEF Entered, WorkerStates
<1>5. /\ v.want[1] \in {"scene", "any"} => v.effect = None
      /\ v.want[1] = "effect" /\ v.serial => v.effect # None
      /\ ~v.serial => v.effect = None
      /\ v.show # None => v.want = <<"scene", Off>>
  BY <1>2, <1>3, LightStepsAre DEF Purpose
<1>6. v.want[1] = "scene" => /\ v.want[2] \in 0 .. 3
                             /\ v.lamp = Shown(v.serial, v.want[2]) \/ v.show # None
  BY <1>2, <1>3, LightNames DEF Purpose, Draw
<1> QED
  BY <1>4, <1>5, <1>6

LEMMA Ready ==
    ASSUME NEW v, NEW u, Entered(v, u), NEW s, Order(s, u), Purpose(s, u)
    PROVE  Sound(s, u)
<1>1. WorkerSlots(<<>>, v) /\ WorkerStates(v)
  BY DEF Entered, Sound
<1>2. WorkerSlots(s, u)
  BY <1>1 DEF WorkerSlots, Active, Entered
<1>3. WorkerStates(u)
  <2>1. \A w \in Ids : w > u.begun => w > v.begun
    BY TcpAssumption DEF Ids, Entered, Lights
  <2> QED
    BY <1>1, <2>1 DEF WorkerStates, Entered
<1> QED
  BY <1>2, <1>3 DEF Sound

\* A frame that asks for a scene.
LEMMA AsksScene ==
    ASSUME NEW v, NEW u, Entered(v, u), NEW s, NEW x \in 0 .. 3, u.want = <<"scene", x>>,
           Paints(s, u.serial, x), NEW F, Sorted(s, u, F), "show" \notin F,
           "effect" \in F => ~u.serial, u.serial => Has(s, {"takeEffect"}) \/ u.effect = None,
           x # Off => Has(s, Stops)
    PROVE  Sound(s, u)
<1>1. ~u.serial => u.effect = None
  BY Left0 DEF Entered
<1>2. Order(s, u)
  BY <1>1, SortedOrder
<1> DEFINE off == OffStep(u.serial)
           last == LastStep(u.serial, x)
           split == Split(u.serial, x)
           blank == u.lamp = {}
<1>3. blank \in BOOLEAN
  OBVIOUS
<1>4. Draws(s, off, last, split, blank)
  BY <1>3 DEF Paints
<1>5. last[1] = "light"
  BY LightNames
<1> HIDE DEF off, last, split, blank
<1>6. Has(s, {"light"})
  BY <1>4, <1>5, DrawsHas
<1>7. u.want[1] = "scene" /\ u.want[2] = x
  OBVIOUS
<1>8. Draw(s, u)
  BY <1>4, <1>7 DEF Draw, off, last, split, blank
<1>9. Purpose(s, u)
  BY <1>1, <1>6, <1>7, <1>8 DEF Purpose
<1> QED
  BY <1>2, <1>9, Ready

\* A frame that stops a show, and asks for nothing of the lights.
LEMMA AsksNothing ==
    ASSUME NEW v, NEW u, Entered(v, u), u.serial \in BOOLEAN, NEW r \in Seq(Steps),
           ~Has(r, LightSteps), u.want = v.want
    PROVE  Sound(<<<<"ifShow", TRUE>>>> \o r, u)
<1> DEFINE a == <<"ifShow", TRUE>>
           s == <<a>> \o r
<1>1. a \in Steps
  BY DEF Steps
<1>2. Sorted(r, u, {})
  BY SortedWithout
<1>3. Sorted(s, u, {}) /\ \A N : Has(s, N) <=> a[1] \in N \/ Has(r, N)
  <2>1. a[1] \in {"ifShow", "takeShow", "takeEffect"} /\ a[1] # "takeEffect"
    OBVIOUS
  <2>2. \A N : Has(s, N) <=> a[1] \in N \/ Has(r, N)
    BY <1>1, HasPrefixed
  <2>3. a[1] \notin New \cup Raising \cup {"join"} /\ a[1] # "light"
    BY DEF New, Raising
  <2>4. Sorted(s, u, {})
    BY <1>1, <1>2, <2>3, SortedFirst
  <2> QED
    BY <2>2, <2>4
<1>4. Order(s, u)
  BY <1>3, SortedOrder
<1>5. /\ ~Has(s, {"takeEffect"}) /\ Has(s, Stops)
  <2>1. ~Has(r, {"takeEffect"}) /\ a[1] \in Stops
    BY WithoutLights, LightStepsAre DEF Stops
  <2> QED
    BY <1>3, <2>1
<1>6. AllHarmless(s)
  <2>1. Harmless(a) /\ AllHarmless(r)
    BY WithoutLights DEF Harmless
  <2> QED
    BY <1>1, <2>1, EachPrefixed
<1>7. /\ v.want[1] \in {"scene", "any"} => v.effect = None
      /\ v.want[1] = "effect" /\ v.serial => v.effect # None
      /\ ~v.serial => v.effect = None
      /\ v.show # None => v.want = <<"scene", Off>>
      /\ v.want[1] = "scene" => /\ v.want[2] \in 0 .. 3
                                /\ v.lamp = Shown(v.serial, v.want[2]) \/ v.show # None
  BY Left0
<1> HIDE DEF s
<1>8. v.want[1] = "scene" => Draw(s, u)
  BY <1>6, <1>7 DEF Draw, Entered
<1>9. Purpose(s, u)
  BY <1>5, <1>7, <1>8 DEF Purpose, Entered
<1> QED
  BY <1>4, <1>9, Ready DEF s

\* A frame that asks for something else than a scene.
LEMMA AsksEffect ==
    ASSUME NEW v, NEW u, Entered(v, u), NEW s, u.want[1] \in {"effect", "any"}, Has(s, Stops),
           Sorted(s, u, {}),
           u.want[1] = "effect" /\ u.serial => Has(s, {"newEffect"}),
           u.want[1] = "any" => Has(s, {"takeEffect"})
    PROVE  Sound(s, u)
<1>1. Order(s, u)
  BY SortedOrder
<1>2. ~u.serial => u.effect = None
  BY Left0 DEF Entered
<1>3. Purpose(s, u)
  BY <1>2 DEF Purpose
<1> QED
  BY <1>1, <1>3, Ready

LEMMA Regroup ==
    ASSUME NEW x \in Seq(Steps), NEW y \in Seq(Steps), NEW z \in Seq(Steps)
    PROVE  (x \o y) \o z = x \o (y \o z)
  BY ConcatAssociative

LEMMA StopSorted ==
    ASSUME NEW a \in Steps, a[1] \in {"ifShow", "takeShow", "takeEffect"}, NEW r \in Seq(Steps),
           NEW v, NEW F, NEW G, Sorted(r, v, G),
           "show" \in G => "show" \in F \/ a[1] # "takeEffect",
           "effect" \in G => "effect" \in F \/ a[1] = "takeEffect"
    PROVE  Sorted(<<a>> \o r, v, F)
<1>1. /\ a[1] \notin New \cup Raising \cup {"join"} /\ a[1] # "light"
      /\ a[1] # "takeEffect" => a[1] \in Stops
  BY DEF New, Raising, Stops
<1> QED
  BY <1>1, SortedFirst

LEMMA IfPart ==
    ASSUME NEW b \in BOOLEAN, NEW r \in Seq(Steps), NEW port \in BOOLEAN
    PROVE  /\ IfShow(b) \o r \in Seq(Steps) /\ Has(IfShow(b) \o r, Stops)
           /\ \A N : Has(r, N) => Has(IfShow(b) \o r, N)
           /\ \A y : Paints(r, port, y) => Paints(IfShow(b) \o r, port, y)
<1> DEFINE a == <<"ifShow", b>>
<1>1. /\ a \in Steps /\ a[1] = "ifShow" /\ a[1] \in Stops
      /\ a[1] \in {"ifShow", "takeShow", "takeEffect"}
  BY DEF Steps, Stops
<1>2. IfShow(b) \o r = <<a>> \o r
  BY DEF IfShow
<1> HIDE DEF a
<1>3. <<a>> \o r \in Seq(Steps) /\ \A N : Has(<<a>> \o r, N) <=> a[1] \in N \/ Has(r, N)
  BY <1>1, Prefixed, HasPrefixed
<1>4. \A y : Paints(r, port, y) => Paints(<<a>> \o r, port, y)
  BY <1>1, PaintsFirst
<1> QED
  BY <1>1, <1>2, <1>3, <1>4

LEMMA IfSorted ==
    ASSUME NEW b \in BOOLEAN, NEW r \in Seq(Steps), NEW v, NEW F, NEW G, Sorted(r, v, G),
           "effect" \in G => "effect" \in F
    PROVE  Sorted(IfShow(b) \o r, v, F)
<1> DEFINE a == <<"ifShow", b>>
<1>1. a \in Steps /\ a[1] = "ifShow" /\ a[1] \in {"ifShow", "takeShow", "takeEffect"}
  BY DEF Steps
<1>2. IfShow(b) \o r = <<a>> \o r
  BY DEF IfShow
<1> HIDE DEF a
<1> QED
  BY <1>1, <1>2, StopSorted

LEMMA EffectPart ==
    ASSUME serial \in BOOLEAN, NEW b \in BOOLEAN, NEW r \in Seq(Steps), NEW v, v.serial = serial
    PROVE  /\ StopEffect(b) \o r \in Seq(Steps)
           /\ serial => Has(StopEffect(b) \o r, {"takeEffect"})
           /\ \A N : Has(r, N) => Has(StopEffect(b) \o r, N)
           /\ \A y : Paints(r, serial, y) => Paints(StopEffect(b) \o r, serial, y)
           /\ serial /\ b /\ AllHarmless(r) => Paints(StopEffect(b) \o r, serial, Off)
           /\ ~serial => StopEffect(b) \o r = r
           /\ \A F, G : /\ Sorted(r, v, G)
                        /\ "show" \in G => "show" \in F
                        /\ "effect" \in G => "effect" \in F \/ serial
                        => Sorted(StopEffect(b) \o r, v, F)
<1>1. CASE ~serial
  <2>1. StopEffect(b) \o r = r
    BY <1>1, ConcatEmptySeq DEF StopEffect
  <2> QED
    BY <1>1, <2>1, SortedMore
<1>2. CASE serial
  <2> DEFINE a == <<"takeEffect", 0>>
             p == IF b THEN Scene(Off) \o r ELSE r
  <2>1. a \in Steps /\ a[1] = "takeEffect" /\ a[1] \in {"ifShow", "takeShow", "takeEffect"}
    BY DEF Steps
  <2>2. Scene(Off) \in Seq(Steps) /\ <<>> \in Seq(Steps)
    BY SceneSteps DEF Off
  <2>3. StopEffect(b) \o r = <<a>> \o p
    <3>1. StopEffect(b) = <<a>> \o IF b THEN Scene(Off) ELSE <<>>
      BY <1>2 DEF StopEffect
    <3>2. <<a>> \in Seq(Steps)
      BY <2>1
    <3> HIDE DEF a
    <3>3. CASE b
      <4>1. StopEffect(b) \o r = (<<a>> \o Scene(Off)) \o r
        BY <3>1, <3>3
      <4> QED
        BY <2>2, <3>2, <3>3, <4>1, Regroup
    <3>4. CASE ~b
      <4>1. <<>> \o r = r
        BY ConcatEmptySeq
      <4>2. StopEffect(b) \o r = (<<a>> \o <<>>) \o r
        BY <3>1, <3>4
      <4>3. (<<a>> \o <<>>) \o r = <<a>> \o (<<>> \o r)
        BY <2>2, <3>2, Regroup
      <4> QED
        BY <3>4, <4>1, <4>2, <4>3
    <3> QED
      BY <3>3, <3>4
  <2>4. /\ p \in Seq(Steps)
        /\ \A N : Has(r, N) => Has(p, N)
        /\ \A y : Paints(r, serial, y) => Paints(p, serial, y)
        /\ \A F : Sorted(r, v, F) => Sorted(p, v, F)
        /\ b /\ AllHarmless(r) => Paints(p, serial, Off)
    <3>1. Off \in 0 .. 6 /\ Off <= 3
      BY DEF Off
    <3>2. /\ Scene(Off) \o r \in Seq(Steps)
          /\ \A N : Has(Scene(Off) \o r, N) <=> "light" \in N \/ Has(r, N)
          /\ \A y : Paints(r, serial, y) => Paints(Scene(Off) \o r, serial, y)
          /\ \A F : Sorted(r, v, F) /\ ("show" \in F \/ Off = Off) => Sorted(Scene(Off) \o r, v, F)
          /\ AllHarmless(r) => Paints(Scene(Off) \o r, serial, Off)
      BY <3>1, ScenePart
    <3>3. CASE b
      BY <3>2, <3>3
    <3>4. CASE ~b
      BY <3>4
    <3> QED
      BY <3>3, <3>4
  <2> HIDE DEF a, p
  <2>5. /\ <<a>> \o p \in Seq(Steps)
        /\ \A N : Has(<<a>> \o p, N) <=> a[1] \in N \/ Has(p, N)
    BY <2>1, <2>4, Prefixed, HasPrefixed
  <2>6. \A y : Paints(p, serial, y) => Paints(<<a>> \o p, serial, y)
    BY <2>1, <2>4, PaintsFirst
  <2>7. ASSUME NEW F, NEW G, Sorted(r, v, G), "show" \in G => "show" \in F
        PROVE  Sorted(<<a>> \o p, v, F)
    <3>1. Sorted(p, v, G) /\ p \in Seq(Steps)
      BY <2>4, <2>7
    <3> QED
      BY <2>1, <2>7, <3>1, StopSorted
  <2> QED
    BY <1>2, <2>1, <2>3, <2>4, <2>5, <2>6, <2>7
<1> QED
  BY <1>1, <1>2

LEMMA ShowPart ==
    ASSUME serial \in BOOLEAN, NEW r \in Seq(Steps), NEW v, v.serial = serial
    PROVE  /\ StopShow(TRUE) \o r \in Seq(Steps) /\ Has(StopShow(TRUE) \o r, Stops)
           /\ \A N : Has(StopShow(TRUE) \o r, N) <=> "takeShow" \in N \/ "light" \in N \/ Has(r, N)
           /\ AllHarmless(r) => Paints(StopShow(TRUE) \o r, serial, Off)
           /\ \A y : Paints(r, serial, y) => Paints(StopShow(TRUE) \o r, serial, y)
           /\ \A F, G : Sorted(r, v, G) /\ ("effect" \in G => "effect" \in F)
                            => Sorted(StopShow(TRUE) \o r, v, F)
<1> DEFINE a == <<"takeShow", 0>>
           p == Scene(Off) \o r
<1>1. /\ a \in Steps /\ a[1] = "takeShow" /\ a[1] \in Stops
      /\ a[1] \in {"ifShow", "takeShow", "takeEffect"}
  BY DEF Steps, Stops
<1>2. Scene(Off) \in Seq(Steps) /\ Off \in 0 .. 6 /\ Off <= 3
  BY SceneSteps DEF Off
<1>3. StopShow(TRUE) \o r = <<a>> \o p
  <2>1. StopShow(TRUE) = <<a>> \o Scene(Off) /\ <<a>> \in Seq(Steps)
    BY <1>1 DEF StopShow
  <2> HIDE DEF a
  <2>2. StopShow(TRUE) \o r = (<<a>> \o Scene(Off)) \o r
    BY <2>1
  <2>3. (<<a>> \o Scene(Off)) \o r = <<a>> \o (Scene(Off) \o r)
    BY <1>2, <2>1, Regroup
  <2> QED
    BY <2>2, <2>3
<1>4. /\ p \in Seq(Steps)
      /\ \A N : Has(p, N) <=> "light" \in N \/ Has(r, N)
      /\ AllHarmless(r) => Paints(p, serial, Off)
      /\ \A y : Paints(r, serial, y) => Paints(p, serial, y)
      /\ \A F : Sorted(r, v, F) /\ ("show" \in F \/ Off = Off) => Sorted(p, v, F)
  BY <1>2, ScenePart
<1> HIDE DEF a, p
<1>5. /\ <<a>> \o p \in Seq(Steps)
      /\ \A N : Has(<<a>> \o p, N) <=> a[1] \in N \/ Has(p, N)
  BY <1>1, <1>4, Prefixed, HasPrefixed
<1>6. \A y : Paints(p, serial, y) => Paints(<<a>> \o p, serial, y)
  BY <1>1, <1>4, PaintsFirst
<1>7. ASSUME NEW F, NEW G, Sorted(r, v, G), "effect" \in G => "effect" \in F
      PROVE  Sorted(<<a>> \o p, v, F)
  <2>1. Sorted(r, v, G \cup {"show"})
    BY <1>7, SortedMore
  <2>2. Sorted(p, v, G \cup {"show"}) /\ p \in Seq(Steps)
    BY <1>4, <2>1
  <2> QED
    BY <1>1, <1>7, <2>2, StopSorted
<1>8. \A N : Has(<<a>> \o p, N) <=> "takeShow" \in N \/ "light" \in N \/ Has(r, N)
  BY <1>1, <1>4, <1>5
<1> QED
  BY <1>1, <1>3, <1>4, <1>5, <1>6, <1>7, <1>8

LEMMA MotionPart ==
    ASSUME serial \in BOOLEAN, NEW x \in 0 .. 3, NEW r \in Seq(Steps), ~Has(r, LightSteps), NEW v,
           v.serial = serial
    PROVE  LET s == MotionScene(x) \o r
           IN /\ s \in Seq(Steps) /\ Paints(s, serial, x) /\ Has(s, Stops)
              /\ serial => Has(s, {"takeEffect"})
              /\ Sorted(s, v, {})
<1> DEFINE p == Scene(x) \o r
           q == StopEffect(FALSE) \o p
           s == IfShow(TRUE) \o q
<1>1. /\ p \in Seq(Steps) /\ Paints(p, serial, x) /\ Sorted(p, v, {"show"})
  <2>1. AllHarmless(r) /\ Sorted(r, v, {"show"})
    BY WithoutLights, SortedWithout
  <2>2. x \in 0 .. 6 /\ x <= 3
    OBVIOUS
  <2> QED
    BY <2>1, <2>2, ScenePart
<1> HIDE DEF p
<1>2. /\ q \in Seq(Steps) /\ Paints(q, serial, x) /\ Sorted(q, v, {"show"})
      /\ serial => Has(q, {"takeEffect"})
  BY <1>1, EffectPart
<1> HIDE DEF q
<1>3. /\ s \in Seq(Steps) /\ Paints(s, serial, x) /\ Has(s, Stops)
      /\ serial => Has(s, {"takeEffect"})
  <2> DEFINE b == TRUE
  <2>1. b \in BOOLEAN
    OBVIOUS
  <2> HIDE DEF b
  <2>2. /\ IfShow(b) \o q \in Seq(Steps) /\ Has(IfShow(b) \o q, Stops)
        /\ \A N : Has(q, N) => Has(IfShow(b) \o q, N)
        /\ \A y : Paints(q, serial, y) => Paints(IfShow(b) \o q, serial, y)
    BY <1>2, <2>1, IfPart
  <2> QED
    BY <1>2, <2>2 DEF b
<1>4. Sorted(s, v, {})
  <2>1. TRUE \in BOOLEAN /\ "effect" \notin {"show"}
    OBVIOUS
  <2> QED
    BY <1>2, <2>1, IfSorted
<1>5. MotionScene(x) \o r = s
  <2>1. IfShow(TRUE) \in Seq(Steps)
    BY PartSteps
  <2>2. StopEffect(FALSE) \in Seq(Steps)
    BY PartSteps
  <2>3. Scene(x) \in Seq(Steps)
    BY SceneSteps
  <2>4. Scene(x) \o r \in Seq(Steps)
    BY <1>1 DEF p
  <2>5. IfShow(TRUE) \o StopEffect(FALSE) \in Seq(Steps)
    BY <2>1, <2>2, ConcatProperties
  <2>6. MotionScene(x) = (IfShow(TRUE) \o StopEffect(FALSE)) \o Scene(x)
    BY <2>1, <2>2, <2>3, Regroup DEF MotionScene
  <2>7. ((IfShow(TRUE) \o StopEffect(FALSE)) \o Scene(x)) \o r
            = (IfShow(TRUE) \o StopEffect(FALSE)) \o (Scene(x) \o r)
    BY <2>3, <2>5, Regroup
  <2>8. (IfShow(TRUE) \o StopEffect(FALSE)) \o (Scene(x) \o r)
            = IfShow(TRUE) \o (StopEffect(FALSE) \o (Scene(x) \o r))
    BY <2>1, <2>2, <2>4, Regroup
  <2> QED
    BY <2>6, <2>7, <2>8 DEF p, q
<1> QED
  BY <1>3, <1>4, <1>5

-----------------------------------------------------------------------------
(* What the frames ask for. *)

Starts(v, u) == Entered(v, u) /\ v.serial = serial /\ v.begun = begun

\* A handler does for the lights what the frame asks of them.
Meets(s, v, u) == IF Has(s, LightSteps) THEN Sound(s, u) ELSE u.want = v.want

LEMMA StartsFacts ==
    ASSUME NEW v, NEW u, Starts(v, u)
    PROVE  Entered(v, u) /\ Number \in Ids /\ serial \in BOOLEAN /\ u.serial = serial /\ u.begun = Number
  BY DEF Starts, Entered, Lights, Number

\* Sequences of steps without the lights.
LEMMA LightFree ==
    ASSUME Number \in Ids
    PROVE  LET Free(s) == s \in Seq(Steps) /\ ~Has(s, LightSteps)
           IN /\ Free(Move) /\ Free(Fail) /\ Free(<<>>) /\ Free(<<<<"stop", 0>>>>)
              /\ \A track \in 0 .. 255 : Free(<<<<"play", track>>>>)
              /\ Free(<<<<"kill", 0>>, <<"track", Number>>>>) /\ Free(TrackingStop)
<1> DEFINE n == Number
<1>1. /\ Move \in Seq(Steps) /\ Fail \in Seq(Steps) /\ <<>> \in Seq(Steps)
      /\ <<<<"stop", 0>>>> \in Seq(Steps) /\ <<<<"kill", 0>>, <<"track", Number>>>> \in Seq(Steps)
      /\ \A track \in 0 .. 255 : <<<<"play", track>>>> \in Seq(Steps)
  BY SmallHandlers DEF Handler
<1>2. <<<<"kill", 0>>, <<"cancel", 0>>>> \in Seq(Steps)
  BY DEF Steps
<1> HIDE DEF n
<1>3. ~Has(<<<<"cancel", 0>>, <<"move", n>>>>, LightSteps)
  BY DEF Has, LightSteps
<1>4. ~Has(<<<<"kill", 0>>, <<"track", n>>>>, LightSteps)
  BY DEF Has, LightSteps
<1>5. ~Has(<<<<"kill", 0>>, <<"cancel", 0>>>>, LightSteps)
  BY DEF Has, LightSteps
<1>6. ~Has(<<<<"fail", 0>>>>, LightSteps) /\ ~Has(<<<<"stop", 0>>>>, LightSteps) /\ ~Has(<<>>, LightSteps)
  BY DEF Has, LightSteps
<1>7. \A track \in 0 .. 255 : ~Has(<<<<"play", track>>>>, LightSteps)
  BY DEF Has, LightSteps
<1> QED
  BY <1>1, <1>2, <1>3, <1>4, <1>5, <1>6, <1>7 DEF Move, Fail, TrackingStop, n

LEMMA MeetsMotion ==
    ASSUME NEW v, NEW u, Starts(v, u), NEW x \in 0 .. 3, NEW r \in Seq(Steps), ~Has(r, LightSteps),
           u.want = <<"scene", x>>
    PROVE  /\ Sound(MotionScene(x) \o r, u) /\ Has(MotionScene(x) \o r, LightSteps)
           /\ Sound(IfShow(TRUE) \o (MotionScene(x) \o r), u)
           /\ Has(IfShow(TRUE) \o (MotionScene(x) \o r), LightSteps)
<1> DEFINE m == MotionScene(x) \o r
           b == TRUE
           s == IfShow(b) \o m
<1>1. Entered(v, u) /\ serial \in BOOLEAN /\ u.serial = serial
  BY StartsFacts
<1>2. /\ m \in Seq(Steps) /\ Paints(m, serial, x) /\ Has(m, Stops)
      /\ serial => Has(m, {"takeEffect"})
      /\ Sorted(m, u, {})
  BY <1>1, MotionPart
<1> HIDE DEF m
<1>3. Sound(m, u)
  BY <1>1, <1>2, AsksScene
<1>4. b \in BOOLEAN
  OBVIOUS
<1> HIDE DEF b
<1>5. /\ s \in Seq(Steps) /\ Has(s, Stops)
      /\ \A N : Has(m, N) => Has(s, N)
      /\ \A y : Paints(m, serial, y) => Paints(s, serial, y)
  BY <1>1, <1>2, <1>4, IfPart
<1>6. Sorted(s, u, {})
  BY <1>2, <1>4, IfSorted
<1> HIDE DEF s
<1>7. Sound(s, u)
  BY <1>1, <1>2, <1>5, <1>6, AsksScene
<1>8. Has(m, LightSteps) /\ Has(s, LightSteps)
  BY <1>2, <1>5, LightStepsAre DEF Has
<1> QED
  BY <1>3, <1>7, <1>8 DEF m, s, b

LEMMA MeetsNothing ==
    ASSUME NEW v, NEW u, Starts(v, u), NEW r \in Seq(Steps), ~Has(r, LightSteps), u.want = v.want
    PROVE  Meets(IfShow(TRUE) \o r, v, u) /\ Meets(r, v, u)
<1>1. Entered(v, u) /\ serial \in BOOLEAN /\ u.serial = serial
  BY StartsFacts
<1>2. Sound(<<<<"ifShow", TRUE>>>> \o r, u)
  BY <1>1, AsksNothing
<1> QED
  BY <1>2 DEF Meets, IfShow

LEMMA ButtonMeets ==
    ASSUME NEW v, NEW u, Starts(v, u), NEW data \in Seq(0 .. 255),
           IF data = <<>> THEN u.want = v.want
           ELSE u.want = CASE data[1] \in {0, 7} -> <<"scene", Off>>
                           [] data[1] \in 1 .. 6 -> <<"scene", DirectionScene(data[1])>>
                           [] OTHER -> v.want
    PROVE  Meets(HandleButton(data), v, u)
<1>1. Number \in Ids
  BY StartsFacts
<1>2. /\ Move \in Seq(Steps) /\ ~Has(Move, LightSteps) /\ Fail \in Seq(Steps) /\ ~Has(Fail, LightSteps)
      /\ <<<<"stop", 0>>>> \in Seq(Steps) /\ ~Has(<<<<"stop", 0>>>>, LightSteps)
  BY <1>1, LightFree
<1>3. CASE Len(data) < 1
  <2>1. data = <<>>
    BY <1>3, EmptySeq
  <2> QED
    BY <1>2, <1>3, <2>1, MeetsNothing DEF HandleButton
<1>4. CASE ~(Len(data) < 1)
  <2>1. data # <<>> /\ data[1] \in 0 .. 255
    BY <1>4, FirstByte
  <2> DEFINE rest == CASE data[1] \in {0, 7} -> MotionScene(Off) \o <<<<"stop", 0>>>>
                       [] data[1] \in 1 .. 6 -> MotionScene(DirectionScene(data[1])) \o Move
                       [] OTHER -> Fail
  <2>0. HandleButton(data) = IfShow(TRUE) \o rest
    BY <1>4 DEF HandleButton
  <2>2. CASE data[1] \in {0, 7}
    <3>1. HandleButton(data) = IfShow(TRUE) \o (MotionScene(Off) \o <<<<"stop", 0>>>>)
      <4>1. rest = MotionScene(Off) \o <<<<"stop", 0>>>>
        BY <2>2
      <4> HIDE DEF rest
      <4> QED
        BY <2>0, <4>1
    <3>2. u.want = <<"scene", Off>> /\ Off \in 0 .. 3
      BY <2>1, <2>2 DEF Off
    <3> QED
      BY <1>2, <3>1, <3>2, MeetsMotion DEF Meets
  <2>3. CASE data[1] \in 1 .. 6
    <3>1. HandleButton(data) = IfShow(TRUE) \o (MotionScene(DirectionScene(data[1])) \o Move)
      <4>1. rest = MotionScene(DirectionScene(data[1])) \o Move
        BY <2>3
      <4> HIDE DEF rest
      <4> QED
        BY <2>0, <4>1
    <3>2. DirectionScene(data[1]) \in 0 .. 3
      BY <2>3 DEF DirectionScene, On, Left, Right
    <3>3. u.want = <<"scene", DirectionScene(data[1])>>
      BY <2>1, <2>3
    <3> QED
      BY <1>2, <3>1, <3>2, <3>3, MeetsMotion DEF Meets
  <2>4. CASE data[1] \notin {0, 7} /\ data[1] \notin 1 .. 6
    <3>1. HandleButton(data) = IfShow(TRUE) \o Fail
      BY <1>4, <2>4 DEF HandleButton
    <3>2. u.want = v.want
      BY <2>1, <2>4
    <3> QED
      BY <1>2, <3>1, <3>2, MeetsNothing
  <2> QED
    BY <2>2, <2>3, <2>4
<1> QED
  BY <1>3, <1>4

\* A new worker, and nothing of the lights after it.
LEMMA NewSorted ==
    ASSUME NEW a \in Steps, a[1] \in New, NEW v, Allowed(a, v), NEW m \in Seq(Steps),
           ~Has(m, LightSteps), NEW l \in Steps, l = <<"launch", a[2][1]>>
    PROVE  LET s == <<a>> \o (<<l>> \o m)
           IN s \in Seq(Steps) /\ Sorted(s, v, {"show", "effect"}) /\ Has(s, {a[1]})
<1> DEFINE r == <<l>> \o m
           s == <<a>> \o r
           off == OffStep(v.serial)
<1>1. /\ a[1] \notin Raising \cup {"join", "light"} /\ l[1] = "launch"
      /\ l[1] \notin New \cup Raising \cup {"join"} \cup (LightSteps \ {"launch"})
  BY DEF New, Raising
<1>2. r \in Seq(Steps) /\ r # <<>> /\ r[1] = l
  BY Prefixed
<1>3. Sorted(r, v, {"show", "effect"})
  <2>1. Sorted(m, v, {"show", "effect"})
    BY SortedWithout
  <2> QED
    BY <1>1, <2>1, SortedFirst
<1>4. ~Has(r, LightSteps \ {"launch"})
  <2>1. ~Has(m, LightSteps \ {"launch"})
    BY DEF Has
  <2> QED
    BY <1>1, <2>1, HasPrefixed
<1> HIDE DEF r
<1>5. s \in Seq(Steps) /\ Has(s, {a[1]}) /\ (Has(s, {"join"}) <=> Has(r, {"join"}))
  <2>1. \A N : Has(s, N) <=> a[1] \in N \/ Has(r, N)
    BY <1>2, HasPrefixed
  <2> QED
    BY <1>1, <1>2, <2>1, Prefixed
<1>6. RaisesLate(s) /\ NewLast(s) /\ AllAllowed(s, v)
  <2>1. RaisesLate(r) /\ NewLast(r) /\ AllAllowed(r, v)
    BY <1>3 DEF Sorted
  <2>2. RaisesLate(s)
    BY <1>1, <1>2, <2>1, RaisesPrefixed
  <2>3. NewLast(s)
    BY <1>2, <1>4, <2>1, NewPrefixed
  <2> QED
    BY <1>2, <2>1, <2>2, <2>3, EachPrefixed
<1>7. Quelled(s, off, TRUE) /\ Freed(s, TRUE)
  BY DEF Quelled, Freed
<1>8. ~Has(r, {"join"})
  BY <1>3 DEF Sorted
<1> HIDE DEF s
<1>9. Sorted(s, v, {"show", "effect"})
  BY <1>5, <1>6, <1>7, <1>8 DEF Sorted
<1> QED
  BY <1>5, <1>9 DEF r, s

\* A frame that stops the show and the effect first, and then does m.
LEMMA FirstParts ==
    ASSUME NEW v, v.serial = serial, serial \in BOOLEAN, NEW m \in Seq(Steps), NEW G,
           Sorted(m, v, G), "effect" \in G => serial
    PROVE  LET s == IfShow(FALSE) \o (StopEffect(FALSE) \o m)
           IN /\ s \in Seq(Steps) /\ Sorted(s, v, {}) /\ Has(s, Stops)
              /\ serial => Has(s, {"takeEffect"})
              /\ \A N : Has(m, N) => Has(s, N)
              /\ \A y : Paints(m, serial, y) => Paints(s, serial, y)
<1> DEFINE b == FALSE
           q == StopEffect(b) \o m
           s == IfShow(b) \o q
<1>1. b \in BOOLEAN
  OBVIOUS
<1> HIDE DEF b
<1>2. /\ q \in Seq(Steps)
      /\ serial => Has(q, {"takeEffect"})
      /\ \A N : Has(m, N) => Has(q, N)
      /\ \A y : Paints(m, serial, y) => Paints(q, serial, y)
  BY <1>1, EffectPart
<1>3. Sorted(q, v, {"show"})
  <2>1. \A F, H : /\ Sorted(m, v, H)
                  /\ "show" \in H => "show" \in F
                  /\ "effect" \in H => "effect" \in F \/ serial
                  => Sorted(q, v, F)
    BY <1>1, EffectPart
  <2>2. /\ "show" \in G => "show" \in {"show"}
        /\ "effect" \in G => "effect" \in {"show"} \/ serial
    OBVIOUS
  <2> QED
    BY <2>1, <2>2
<1> HIDE DEF q
<1>4. /\ s \in Seq(Steps) /\ Has(s, Stops)
      /\ \A N : Has(q, N) => Has(s, N)
      /\ \A y : Paints(q, serial, y) => Paints(s, serial, y)
  BY <1>1, <1>2, IfPart
<1>5. Sorted(s, v, {})
  <2>1. "effect" \notin {"show"}
    OBVIOUS
  <2> QED
    BY <1>1, <1>2, <1>3, <2>1, IfSorted
<1> HIDE DEF s
<1>6. /\ serial => Has(s, {"takeEffect"})
      /\ \A N : Has(m, N) => Has(s, N)
      /\ \A y : Paints(m, serial, y) => Paints(s, serial, y)
  BY <1>2, <1>4
<1> QED
  BY <1>4, <1>5, <1>6 DEF s, q, b

\* Without the serial port the scene is published, whatever its number is.
LEMMA PublishedMeets ==
    ASSUME NEW v, NEW u, Starts(v, u), ~serial, NEW x \in 0 .. 6,
           u.want = IF x = 0 THEN <<"scene", Off>> ELSE <<"effect", x>>
    PROVE  Sound(IfShow(FALSE) \o Scene(x), u) /\ Has(IfShow(FALSE) \o Scene(x), LightSteps)
<1> DEFINE b == FALSE
           m == Scene(x)
           s == IfShow(b) \o m
<1>1. Entered(v, u) /\ serial \in BOOLEAN /\ u.serial = serial /\ b \in BOOLEAN
  BY StartsFacts
<1> HIDE DEF b
<1>2. m \in Seq(Steps) /\ Paints(m, serial, x) /\ Sorted(m, u, {"show"})
  <2>1. <<>> \in Seq(Steps) /\ ~Has(<<>>, LightSteps)
    BY DEF Has
  <2>2. AllHarmless(<<>>) /\ Sorted(<<>>, u, {"show"})
    BY <2>1, WithoutLights, SortedWithout
  <2>3. Scene(x) \o <<>> = Scene(x)
    <3>1. Scene(x) \in Seq(Steps)
      BY <1>1, SceneSteps
    <3> QED
      BY <3>1, ConcatEmptySeq
  <2>4. /\ Scene(x) \o <<>> \in Seq(Steps)
        /\ AllHarmless(<<>>) => Paints(Scene(x) \o <<>>, serial, x)
        /\ \A F : Sorted(<<>>, u, F) /\ ("show" \in F \/ x = Off) => Sorted(Scene(x) \o <<>>, u, F)
    BY <1>1, <2>1, ScenePart
  <2>5. "show" \in {"show"}
    OBVIOUS
  <2> QED
    BY <2>2, <2>3, <2>4, <2>5
<1> HIDE DEF m
<1>3. /\ s \in Seq(Steps) /\ Has(s, Stops)
      /\ \A y : Paints(m, serial, y) => Paints(s, serial, y)
  BY <1>1, <1>2, IfPart
<1>4. Sorted(s, u, {})
  <2>1. "effect" \notin {"show"}
    OBVIOUS
  <2> QED
    BY <1>1, <1>2, <2>1, IfSorted
<1> HIDE DEF s
<1>5. Has(s, LightSteps)
  BY <1>3, LightStepsAre DEF Has
<1>6. CASE x = 0
  <2>1. Paints(s, u.serial, 0) /\ u.want = <<"scene", 0>> /\ 0 \in 0 .. 3
    BY <1>1, <1>2, <1>3, <1>6 DEF Off
  <2> QED
    BY <1>1, <1>3, <1>4, <1>5, <2>1, AsksScene DEF s, m, b
<1>7. CASE x # 0
  <2>1. u.want[1] = "effect" /\ ~u.serial
    BY <1>1, <1>7
  <2>2. u.want[1] \in {"effect", "any"} /\ u.want[1] # "any"
    BY <2>1
  <2>3. Sound(s, u)
    BY <1>1, <1>3, <1>4, <2>1, <2>2, AsksEffect
  <2> QED
    BY <1>5, <2>3 DEF s, m, b
<1> QED
  BY <1>6, <1>7

LEMMA UpToSix == \A n \in 0 .. 255 : ~(n > 6) => n \in 0 .. 6
  OBVIOUS

LEMMA TwoSteps ==
    ASSUME NEW a \in Steps, NEW l \in Steps
    PROVE  <<a, l>> = <<a>> \o (<<l>> \o <<>>) /\ <<a, l>> = <<a>> \o <<l>>
<1>1. <<a>> \in Seq(Steps) /\ <<l>> \in Seq(Steps) /\ <<a, l>> \in Seq(Steps)
  OBVIOUS
<1>2. <<l>> \o <<>> = <<l>>
  BY <1>1, ConcatEmptySeq
<1>3. /\ <<a>> \o <<l>> \in Seq(Steps) /\ Len(<<a>> \o <<l>>) = Len(<<l>>) + 1
      /\ (<<a>> \o <<l>>)[1] = a
      /\ \A i \in 1 .. Len(<<l>>) : (<<a>> \o <<l>>)[i + 1] = <<l>>[i]
  BY <1>1, Prefixed
<1>4. Len(<<l>>) = 1 /\ <<l>>[1] = l /\ 1 \in 1 .. 1
  OBVIOUS
<1>5. Len(<<a>> \o <<l>>) = 2 /\ (<<a>> \o <<l>>)[2] = l
  <2>1. 1 \in 1 .. Len(<<l>>) /\ 1 + 1 = 2
    BY <1>4
  <2> QED
    BY <1>3, <1>4, <2>1
<1>6. /\ Len(<<a, l>>) = 2 /\ <<a, l>>[1] = a /\ <<a, l>>[2] = l
      /\ \A i \in 1 .. 2 : i = 1 \/ i = 2
  OBVIOUS
<1>7. \A i \in 1 .. Len(<<a, l>>) : <<a, l>>[i] = (<<a>> \o <<l>>)[i]
  BY <1>3, <1>5, <1>6
<1> QED
  BY <1>1, <1>2, <1>3, <1>5, <1>6, <1>7, SeqEqual

LEMMA ThreeSteps ==
    ASSUME NEW a \in Steps, NEW l \in Steps, NEW p \in Steps
    PROVE  <<a, l, p>> = <<a>> \o (<<l>> \o <<p>>)
<1> DEFINE r == <<l, p>>
<1>0. r \in Seq(Steps)
  OBVIOUS
<1>1. <<a, l, p>> \in Seq(Steps) /\ Len(r) = 2 /\ r[1] = l /\ r[2] = p
  OBVIOUS
<1>2. <<l>> \o <<p>> = r
  BY TwoSteps
<1> HIDE DEF r
<1>3. /\ <<a>> \o r \in Seq(Steps) /\ Len(<<a>> \o r) = Len(r) + 1
      /\ (<<a>> \o r)[1] = a
      /\ \A i \in 1 .. Len(r) : (<<a>> \o r)[i + 1] = r[i]
  BY <1>0, Prefixed
<1>4. 1 \in 1 .. Len(r) /\ 2 \in 1 .. Len(r) /\ 1 + 1 = 2 /\ 2 + 1 = 3
  BY <1>1
<1>5. Len(<<a>> \o r) = 3 /\ (<<a>> \o r)[2] = l /\ (<<a>> \o r)[3] = p
  BY <1>1, <1>3, <1>4
<1>6. /\ Len(<<a, l, p>>) = 3 /\ <<a, l, p>>[1] = a /\ <<a, l, p>>[2] = l /\ <<a, l, p>>[3] = p
      /\ \A i \in 1 .. 3 : i = 1 \/ i = 2 \/ i = 3
  OBVIOUS
<1>7. \A i \in 1 .. Len(<<a, l, p>>) : <<a, l, p>>[i] = (<<a>> \o r)[i]
  BY <1>3, <1>5, <1>6
<1> QED
  BY <1>1, <1>2, <1>3, <1>5, <1>6, <1>7, SeqEqual

LEMMA LightEffectMeets ==
    ASSUME NEW v, NEW u, Starts(v, u), NEW data \in Seq(0 .. 255),
           IF data = <<>> THEN u.want = v.want
           ELSE u.want = CASE data[1] = 0 -> <<"scene", Off>>
                           [] data[1] \in 1 .. 5 -> <<"effect", data[1]>>
                           [] data[1] = 6 -> <<IF serial THEN "any" ELSE "effect", 6>>
                           [] OTHER -> v.want
    PROVE  Meets(HandleLightEffect(data), v, u)
<1>1. Entered(v, u) /\ Number \in Ids /\ serial \in BOOLEAN /\ u.serial = serial /\ u.begun = Number
  BY StartsFacts
<1>2. /\ Fail \in Seq(Steps) /\ ~Has(Fail, LightSteps) /\ <<>> \in Seq(Steps)
      /\ ~Has(<<>>, LightSteps)
  BY <1>1, LightFree
<1>3. CASE Len(data) < 1 \/ data[1] > 6
  <2>1. HandleLightEffect(data) = Fail
    BY <1>3 DEF HandleLightEffect
  <2>2. u.want = v.want
    <3>1. CASE data = <<>>
      BY <3>1
    <3>2. CASE data # <<>>
      <4>1. data[1] \in 0 .. 255
        BY <3>2, FirstByte
      <4>2. Len(data) \in Nat /\ Len(data) # 0
        BY <3>2, EmptySeq
      <4>3. data[1] > 6
        BY <1>3, <4>2
      <4>4. data[1] # 0 /\ data[1] \notin 1 .. 5 /\ data[1] # 6
        BY <4>1, <4>3
      <4> QED
        BY <3>2, <4>4
    <3> QED
      BY <3>1, <3>2
  <2> QED
    BY <1>2, <2>1, <2>2, MeetsNothing
<1>4. CASE ~(Len(data) < 1 \/ data[1] > 6)
  <2>1. data # <<>> /\ data[1] \in 0 .. 6
    <3>1. data[1] \in 0 .. 255
      BY <1>4, FirstByte
    <3>2. data # <<>>
      BY <1>4, EmptySeq
    <3> QED
      BY <1>4, <3>1, <3>2, UpToSix
  <2> DEFINE d == data[1]
  <2>2. u.want = IF d = 0 THEN <<"scene", Off>>
                 ELSE IF d = 6 THEN <<IF serial THEN "any" ELSE "effect", 6>> ELSE <<"effect", d>>
    BY <2>1
  <2>3. CASE ~serial
    <3>1. HandleLightEffect(data) = IfShow(FALSE) \o Scene(d)
      BY <1>4, <2>3 DEF HandleLightEffect
    <3>2. u.want = IF d = 0 THEN <<"scene", Off>> ELSE <<"effect", d>>
      BY <2>2, <2>3
    <3>3. d \in 0 .. 6
      BY <2>1
    <3> HIDE DEF d
    <3> QED
      BY <2>3, <3>1, <3>2, <3>3, PublishedMeets DEF Meets
  <2>4. CASE serial
    <3> DEFINE rest == CASE d = 0 -> Scene(Off)
                         [] d \in DOMAIN Patterns ->
                                <<<<"newEffect", <<Number, d>>>>, <<"launch", Number>>>>
                         [] OTHER -> Fail
               b == FALSE
    <3>1. DOMAIN Patterns = 1 .. 5
      BY DEF Patterns
    <3>2. HandleLightEffect(data) = IfShow(b) \o (StopEffect(b) \o rest)
      BY <1>4, <2>4 DEF HandleLightEffect
    <3>3. CASE d = 0
      <4>1. rest = Scene(Off)
        BY <3>1, <3>3
      <4> HIDE DEF rest
      <4>2. rest \in Seq(Steps) /\ Paints(rest, serial, Off) /\ Sorted(rest, u, {})
        <5>1. Scene(Off) \in Seq(Steps) /\ Off \in 0 .. 6 /\ Off <= 3
          BY <1>1, SceneSteps DEF Off
        <5>2. Scene(Off) \o <<>> = Scene(Off)
          BY <5>1, ConcatEmptySeq
        <5>3. AllHarmless(<<>>) /\ Sorted(<<>>, u, {})
          BY <1>2, WithoutLights, SortedWithout
        <5>4. /\ AllHarmless(<<>>) => Paints(Scene(Off) \o <<>>, serial, Off)
              /\ \A F : Sorted(<<>>, u, F) /\ ("show" \in F \/ Off = Off)
                            => Sorted(Scene(Off) \o <<>>, u, F)
          BY <1>1, <1>2, <5>1, ScenePart
        <5> QED
          BY <4>1, <5>1, <5>2, <5>3, <5>4
      <4> DEFINE s == IfShow(b) \o (StopEffect(b) \o rest)
      <4>3. /\ s \in Seq(Steps) /\ Sorted(s, u, {}) /\ Has(s, Stops)
            /\ serial => Has(s, {"takeEffect"})
            /\ \A y : Paints(rest, serial, y) => Paints(s, serial, y)
        BY <1>1, <4>2, FirstParts
      <4> HIDE DEF s
      <4>4. u.want = <<"scene", Off>> /\ Off \in 0 .. 3
        BY <2>2, <3>3 DEF Off
      <4>5. Sound(s, u)
        BY <1>1, <4>2, <4>3, <4>4, AsksScene
      <4>6. HandleLightEffect(data) = s
        BY <3>2 DEF s
      <4>7. Has(s, LightSteps)
        BY <4>3, LightStepsAre DEF Has
      <4> QED
        BY <4>5, <4>6, <4>7 DEF Meets
    <3>4. CASE d \in 1 .. 5
      <4> DEFINE a == <<"newEffect", <<Number, d>>>>
                 l == <<"launch", Number>>
      <4>1. rest = <<a, l>>
        <5>1. d # 0
          BY <3>4
        <5> QED
          BY <3>1, <3>4, <5>1
      <4>2. a \in Steps /\ l \in Steps /\ a[1] = "newEffect" /\ a[2][1] = Number
        BY <1>1, <3>1, <3>4 DEF Steps
      <4>3. u.want = <<"effect", d>>
        BY <2>2, <3>4
      <4>4. Allowed(a, u)
        <5>1. u.worker[u.begun].st = "none"
          BY <1>1, Left0
        <5>2. Number <= u.begun
          BY <1>1, TcpAssumption DEF Ids
        <5> QED
          BY <1>1, <2>4, <4>2, <4>3, <5>1, <5>2 DEF Allowed
      <4> HIDE DEF a, l, rest
      <4>5. rest = <<a>> \o (<<l>> \o <<>>)
        BY <4>1, <4>2, TwoSteps
      <4>6. rest \in Seq(Steps) /\ Sorted(rest, u, {"show", "effect"}) /\ Has(rest, {"newEffect"})
        <5>1. a[1] \in New /\ l = <<"launch", a[2][1]>>
          BY <4>2 DEF New, l
        <5> QED
          BY <1>2, <4>2, <4>4, <4>5, <5>1, NewSorted
      <4> DEFINE s == IfShow(b) \o (StopEffect(b) \o rest)
      <4>7. /\ s \in Seq(Steps) /\ Sorted(s, u, {}) /\ Has(s, Stops)
            /\ \A N : Has(rest, N) => Has(s, N)
        BY <1>1, <2>4, <4>6, FirstParts
      <4> HIDE DEF s
      <4>8. Sound(s, u)
        <5>1. u.want[1] \in {"effect", "any"} /\ u.want[1] # "any" /\ Has(s, {"newEffect"})
          BY <4>3, <4>6, <4>7
        <5> QED
          BY <1>1, <4>7, <5>1, AsksEffect
      <4>9. HandleLightEffect(data) = s
        BY <3>2 DEF s
      <4>10. Has(s, LightSteps)
        BY <4>7, LightStepsAre DEF Has
      <4> QED
        BY <4>8, <4>9, <4>10 DEF Meets
    <3>5. CASE d = 6
      <4>1. rest = Fail
        <5>1. d # 0 /\ d \notin DOMAIN Patterns
          BY <3>1, <3>5
        <5> QED
          BY <5>1
      <4> HIDE DEF rest
      <4>2. rest \in Seq(Steps) /\ Sorted(rest, u, {})
        BY <1>2, <4>1, SortedWithout
      <4> DEFINE s == IfShow(b) \o (StopEffect(b) \o rest)
      <4>3. /\ Sorted(s, u, {}) /\ Has(s, Stops)
            /\ serial => Has(s, {"takeEffect"})
        BY <1>1, <4>2, FirstParts
      <4> HIDE DEF s
      <4>4. u.want[1] = "any"
        BY <2>2, <2>4, <3>5
      <4>5. Sound(s, u)
        <5>1. u.want[1] \in {"effect", "any"} /\ u.want[1] # "effect"
          BY <4>4
        <5> QED
          BY <1>1, <2>4, <4>3, <5>1, AsksEffect
      <4>6. HandleLightEffect(data) = s
        BY <3>2 DEF s
      <4>7. Has(s, LightSteps)
        BY <4>3, LightStepsAre DEF Has
      <4> QED
        BY <4>5, <4>6, <4>7 DEF Meets
    <3>6. d = 0 \/ d \in 1 .. 5 \/ d = 6
      BY <2>1
    <3> QED
      BY <3>3, <3>4, <3>5, <3>6
  <2> QED
    BY <2>3, <2>4
<1> QED
  BY <1>3, <1>4

LEMMA ShowStartMeets ==
    ASSUME NEW v, NEW u, Starts(v, u), u.want = <<"scene", Off>>
    PROVE  Sound(ShowStart, u) /\ Has(ShowStart, LightSteps)
<1>1. Entered(v, u) /\ Number \in Ids /\ serial \in BOOLEAN /\ u.serial = serial /\ u.begun = Number
  BY StartsFacts
<1> DEFINE a == <<"newShow", <<Number, 0>>>>
           l == <<"launch", Number>>
           p == <<"play", 3>>
           m == <<p>>
           b == TRUE
           r == StopShow(TRUE) \o (<<a>> \o (<<l>> \o m))
           s == StopEffect(b) \o r
<1>2. a \in Steps /\ l \in Steps /\ p \in Steps /\ a[1] = "newShow" /\ a[2][1] = Number /\ b \in BOOLEAN
  BY <1>1 DEF Steps
<1>3. m \in Seq(Steps) /\ ~Has(m, LightSteps)
  <2>1. 3 \in 0 .. 255
    OBVIOUS
  <2> QED
    BY <1>1, <2>1, LightFree
<1>4. Allowed(a, u)
  <2>1. u.worker[u.begun].st = "none"
    BY <1>1, Left0
  <2>2. Number <= u.begun
    BY <1>1, TcpAssumption DEF Ids
  <2> QED
    BY <1>1, <1>2, <2>1, <2>2 DEF Allowed
<1>5. a[1] \in New /\ l = <<"launch", a[2][1]>>
  BY <1>2 DEF New
<1>6. Harmless(a) /\ Harmless(l)
  BY DEF Harmless
<1>7. ShowStart = (StopEffect(TRUE) \o StopShow(TRUE)) \o <<a, l, p>>
  BY DEF ShowStart
<1> HIDE DEF a, l, p
<1>8. <<a, l, p>> = <<a>> \o (<<l>> \o m)
  BY <1>2, ThreeSteps
<1> HIDE DEF m, b
<1> DEFINE k == <<l>> \o m
           q == <<a>> \o k
<1>9. q \in Seq(Steps) /\ Sorted(q, u, {"show", "effect"})
  BY <1>2, <1>3, <1>4, <1>5, NewSorted
<1>10. AllHarmless(q)
  <2>1. AllHarmless(m)
    BY <1>3, WithoutLights
  <2>2. k \in Seq(Steps) /\ AllHarmless(k)
    BY <1>2, <1>3, <1>6, <2>1, Prefixed, EachPrefixed
  <2> HIDE DEF k
  <2> QED
    BY <1>2, <1>6, <2>2, EachPrefixed
<1> HIDE DEF q
<1>11. /\ r \in Seq(Steps) /\ Paints(r, serial, Off) /\ Sorted(r, u, {"effect"})
       /\ Has(r, {"takeShow"})
  <2>1. r = StopShow(TRUE) \o q
    BY DEF q
  <2> HIDE DEF r
  <2>2. /\ StopShow(TRUE) \o q \in Seq(Steps)
        /\ \A N : Has(StopShow(TRUE) \o q, N) <=> "takeShow" \in N \/ "light" \in N \/ Has(q, N)
        /\ AllHarmless(q) => Paints(StopShow(TRUE) \o q, serial, Off)
        /\ \A F, G : Sorted(q, u, G) /\ ("effect" \in G => "effect" \in F)
                            => Sorted(StopShow(TRUE) \o q, u, F)
    BY <1>1, <1>9, ShowPart
  <2>3. "effect" \in {"show", "effect"} => "effect" \in {"effect"}
    OBVIOUS
  <2>4. Sorted(StopShow(TRUE) \o q, u, {"effect"})
    BY <1>9, <2>2, <2>3
  <2> QED
    BY <1>10, <2>1, <2>2, <2>4
<1> HIDE DEF r
<1> DEFINE F == IF serial THEN {} ELSE {"effect"}
<1>12. /\ s \in Seq(Steps) /\ Paints(s, serial, Off) /\ Has(s, {"takeShow"})
       /\ serial => Has(s, {"takeEffect"})
       /\ Sorted(s, u, F)
  <2>1. /\ s \in Seq(Steps)
        /\ serial => Has(s, {"takeEffect"})
        /\ \A N : Has(r, N) => Has(s, N)
        /\ \A y : Paints(r, serial, y) => Paints(s, serial, y)
        /\ \A H, G : /\ Sorted(r, u, G)
                     /\ "show" \in G => "show" \in H
                     /\ "effect" \in G => "effect" \in H \/ serial
                     => Sorted(s, u, H)
    BY <1>1, <1>2, <1>11, EffectPart
  <2>2. "show" \notin {"effect"} /\ ("effect" \in F \/ serial)
    OBVIOUS
  <2> HIDE DEF F, s
  <2>3. Sorted(s, u, F)
    BY <1>11, <2>1, <2>2
  <2> QED
    BY <1>11, <2>1, <2>3
<1>13. ShowStart = s
  <2>1. StopEffect(TRUE) \in Seq(Steps)
    BY <1>1, PartSteps
  <2>2. StopShow(TRUE) \in Seq(Steps)
    BY <1>1, PartSteps
  <2>3. ShowStart = (StopEffect(TRUE) \o StopShow(TRUE)) \o q
    BY <1>7, <1>8 DEF q
  <2>4. (StopEffect(TRUE) \o StopShow(TRUE)) \o q = StopEffect(TRUE) \o (StopShow(TRUE) \o q)
    BY <1>9, <2>1, <2>2, Regroup
  <2> QED
    BY <2>3, <2>4 DEF s, r, q, b
<1>14. "show" \notin F /\ ("effect" \in F => ~u.serial)
  BY <1>1
<1> HIDE DEF s, F
<1>15. Off \in 0 .. 3 /\ Off = Off
  BY DEF Off
<1>16. Sound(s, u)
  BY <1>1, <1>12, <1>14, <1>15, AsksScene
<1>17. Has(s, LightSteps)
  BY <1>12 DEF Has, LightSteps
<1> QED
  BY <1>13, <1>16, <1>17

\* The frame that stops the show; an effect goes on.
LEMMA ShowStopMeets ==
    ASSUME NEW v, NEW u, Starts(v, u),
           u.want = IF serial /\ v.want[1] = "effect" THEN v.want ELSE <<"scene", Off>>
    PROVE  Sound(StopShow(TRUE), u) /\ Has(StopShow(TRUE), LightSteps)
<1> DEFINE s == StopShow(TRUE)
<1>1. Entered(v, u) /\ serial \in BOOLEAN /\ u.serial = serial /\ v.serial = serial
  BY StartsFacts DEF Starts
<1>2. <<>> \in Seq(Steps) /\ ~Has(<<>>, LightSteps)
  BY DEF Has
<1>3. StopShow(TRUE) \o <<>> = s
  <2>1. StopShow(TRUE) \in Seq(Steps)
    BY <1>1, PartSteps
  <2> QED
    BY <2>1, ConcatEmptySeq
<1>4. /\ \A N : Has(s, N) <=> "takeShow" \in N \/ "light" \in N
      /\ Paints(s, serial, Off) /\ Sorted(s, u, {})
  <2> HIDE DEF s
  <2>0. \A N : ~Has(<<>>, N)
    BY DEF Has
  <2>1. AllHarmless(<<>>) /\ Sorted(<<>>, u, {}) /\ \A N : ~Has(<<>>, N)
    BY <1>2, <2>0, WithoutLights, SortedWithout
  <2>2. /\ \A N : Has(StopShow(TRUE) \o <<>>, N) <=> "takeShow" \in N \/ "light" \in N \/ Has(<<>>, N)
        /\ AllHarmless(<<>>) => Paints(StopShow(TRUE) \o <<>>, serial, Off)
        /\ \A F, G : Sorted(<<>>, u, G) /\ ("effect" \in G => "effect" \in F)
                            => Sorted(StopShow(TRUE) \o <<>>, u, F)
    BY <1>1, <1>2, ShowPart
  <2>3. "effect" \notin {}
    OBVIOUS
  <2> QED
    BY <1>3, <2>1, <2>2, <2>3
<1>5. Has(s, LightSteps) /\ Has(s, Stops) /\ ~Has(s, {"takeEffect"})
  BY <1>4 DEF LightSteps, Stops
<1> HIDE DEF s
<1>6. /\ v.want[1] \in {"scene", "any"} => v.effect = None
      /\ v.want[1] = "effect" /\ v.serial => v.effect # None
      /\ ~v.serial => v.effect = None
      /\ v.show # None => v.want = <<"scene", Off>>
  BY <1>1, Left0
<1>7. u.show = v.show /\ u.effect = v.effect
  BY <1>1 DEF Entered
<1>8. CASE serial /\ v.want[1] = "effect"
  <2>1. u.want[1] = "effect" /\ u.show = None /\ u.effect # None
    <3>1. v.want # <<"scene", Off>>
      BY <1>8
    <3> QED
      BY <1>1, <1>6, <1>7, <1>8, <3>1
  <2>2. Order(s, u)
    BY <1>4, SortedOrder
  <2>3. Purpose(s, u)
    BY <1>1, <1>5, <1>8, <2>1 DEF Purpose
  <2>4. Sound(s, u)
    BY <1>1, <2>2, <2>3, Ready
  <2> QED
    BY <1>5, <2>4 DEF s
<1>9. CASE ~(serial /\ v.want[1] = "effect")
  <2>1. u.want = <<"scene", Off>> /\ Off \in 0 .. 3
    BY <1>9 DEF Off
  <2>2. u.effect = None
    <3>1. v.want[1] \in {"scene", "effect", "any"}
      BY <1>1 DEF Entered, Lights
    <3> QED
      BY <1>1, <1>6, <1>7, <1>9, <3>1
  <2>3. Sound(s, u)
    BY <1>1, <1>4, <1>5, <2>1, <2>2, AsksScene
  <2> QED
    BY <1>5, <2>3 DEF s
<1> QED
  BY <1>8, <1>9

LEMMA WarningMeets ==
    ASSUME NEW v, NEW u, Starts(v, u), u.want = <<"scene", On>>
    PROVE  Sound(FrontWarning, u) /\ Has(FrontWarning, LightSteps)
<1>1. <<<<"play", 0>>>> \in Seq(Steps) /\ ~Has(<<<<"play", 0>>>>, LightSteps)
  <2>1. 0 \in 0 .. 255
    OBVIOUS
  <2> QED
    BY <2>1, StartsFacts, LightFree
<1>2. On \in 0 .. 3
  BY DEF On
<1> QED
  BY <1>1, <1>2, MeetsMotion DEF FrontWarning

\* close() turns the lights off, whatever runs.
LEMMA CloseMeets ==
    ASSUME NEW v, NEW u, Starts(v, u), u.want = <<"scene", Off>>
    PROVE  Sound(Close, u) /\ Has(Close, LightSteps)
<1>1. Entered(v, u) /\ serial \in BOOLEAN /\ u.serial = serial
  BY StartsFacts
<1> DEFINE c == <<"close", "monitor">>
           h == <<"silence", 0>>
           last == <<<<"awaitStop", 0>>, <<"close", "serial">>, <<"cancel", 0>>,
                     <<"close", "publisher">>>>
           b == TRUE
           e == StopEffect(b) \o last
           r == StopShow(TRUE) \o e
           s == <<c>> \o (<<h>> \o r)
<1>2. c \in Steps /\ h \in Steps /\ c[1] = "close" /\ h[1] = "silence" /\ b \in BOOLEAN
  BY DEF Steps, Parts
<1>3. last \in Seq(Steps)
  <2>1. /\ <<"awaitStop", 0>> \in Steps /\ <<"close", "serial">> \in Steps
        /\ <<"cancel", 0>> \in Steps /\ <<"close", "publisher">> \in Steps
    BY DEF Steps, Parts
  <2> QED
    BY <2>1
<1>4. ~Has(last, LightSteps)
  BY DEF Has, LightSteps
<1>5. Close = ((<<c, h>> \o StopShow(TRUE)) \o StopEffect(TRUE)) \o last
  BY DEF Close
<1> HIDE DEF c, h, last
<1>6. <<c, h>> = <<c>> \o <<h>> /\ <<c>> \in Seq(Steps) /\ <<h>> \in Seq(Steps)
      /\ <<c, h>> \in Seq(Steps)
  BY <1>2, TwoSteps
<1>7. Close = s
  <2>1. StopEffect(TRUE) \in Seq(Steps)
    BY <1>1, PartSteps
  <2>2. StopShow(TRUE) \in Seq(Steps)
    BY <1>1, PartSteps
  <2> DEFINE k == StopShow(TRUE)
             j == StopEffect(TRUE)
             f == <<c, h>>
  <2>3. k \in Seq(Steps) /\ j \in Seq(Steps) /\ f \in Seq(Steps)
    BY <1>6, <2>1, <2>2
  <2>4. Close = ((f \o k) \o j) \o last /\ f = <<c>> \o <<h>>
    BY <1>5, <1>6
  <2>5. s = <<c>> \o (<<h>> \o (k \o (j \o last)))
    OBVIOUS
  <2> HIDE DEF k, j, f, s
  <2>6. j \o last \in Seq(Steps)
    BY <1>3, <2>3, ConcatProperties
  <2>7. k \o (j \o last) \in Seq(Steps)
    BY <2>3, <2>6, ConcatProperties
  <2>8. f \o k \in Seq(Steps)
    BY <2>3, ConcatProperties
  <2>9. ((f \o k) \o j) \o last = (f \o k) \o (j \o last)
    BY <1>3, <2>3, <2>8, Regroup
  <2>10. (f \o k) \o (j \o last) = f \o (k \o (j \o last))
    BY <2>3, <2>6, Regroup
  <2>11. (<<c>> \o <<h>>) \o (k \o (j \o last)) = <<c>> \o (<<h>> \o (k \o (j \o last)))
    BY <1>6, <2>7, Regroup
  <2> QED
    BY <2>4, <2>5, <2>9, <2>10, <2>11
<1>8. AllHarmless(last) /\ Sorted(last, u, {})
  BY <1>3, <1>4, WithoutLights, SortedWithout
<1> HIDE DEF b
<1>9. /\ e \in Seq(Steps) /\ Sorted(e, u, {})
      /\ serial => Has(e, {"takeEffect"})
      /\ IF serial THEN Paints(e, serial, Off) ELSE AllHarmless(e)
  <2>1. /\ e \in Seq(Steps)
        /\ serial => Has(e, {"takeEffect"})
        /\ serial /\ b /\ AllHarmless(last) => Paints(e, serial, Off)
        /\ ~serial => e = last
    BY <1>1, <1>2, <1>3, EffectPart
  <2>2. \A H, G : /\ Sorted(last, u, G)
                  /\ "show" \in G => "show" \in H
                  /\ "effect" \in G => "effect" \in H \/ serial
                  => Sorted(e, u, H)
    BY <1>1, <1>2, <1>3, EffectPart
  <2>3. "show" \notin {} /\ "effect" \notin {}
    OBVIOUS
  <2> HIDE DEF e
  <2>4. Sorted(e, u, {})
    BY <1>8, <2>2, <2>3
  <2>5. b
    BY DEF b
  <2> QED
    BY <1>8, <2>1, <2>4, <2>5
<1> HIDE DEF e
<1>10. /\ r \in Seq(Steps) /\ Paints(r, serial, Off) /\ Sorted(r, u, {}) /\ Has(r, {"takeShow"})
       /\ serial => Has(r, {"takeEffect"})
  <2>1. /\ r \in Seq(Steps)
        /\ \A N : Has(r, N) <=> "takeShow" \in N \/ "light" \in N \/ Has(e, N)
        /\ AllHarmless(e) => Paints(r, serial, Off)
        /\ \A y : Paints(e, serial, y) => Paints(r, serial, y)
        /\ \A F, G : Sorted(e, u, G) /\ ("effect" \in G => "effect" \in F) => Sorted(r, u, F)
    BY <1>1, <1>9, ShowPart
  <2>2. "effect" \notin {}
    OBVIOUS
  <2> HIDE DEF r
  <2>3. Sorted(r, u, {})
    BY <1>9, <2>1, <2>2
  <2> QED
    BY <1>9, <2>1, <2>3
<1> HIDE DEF r
<1>11. /\ c[1] \notin New \cup Raising \cup {"join"} /\ c[1] # "light"
       /\ h[1] \notin New \cup Raising \cup {"join"} /\ h[1] # "light"
  BY <1>2 DEF New, Raising
<1> DEFINE q == <<h>> \o r
<1>12. /\ q \in Seq(Steps) /\ Paints(q, serial, Off) /\ Has(q, {"takeShow"})
       /\ serial => Has(q, {"takeEffect"})
  <2>1. q \in Seq(Steps)
    BY <1>2, <1>10, Prefixed
  <2>2. Paints(q, serial, Off)
    BY <1>1, <1>2, <1>10, PaintsFirst
  <2>3. \A N : Has(q, N) <=> h[1] \in N \/ Has(r, N)
    BY <1>2, <1>10, HasPrefixed
  <2> QED
    BY <1>10, <2>1, <2>2, <2>3
<1>13. Sorted(q, u, {})
  BY <1>2, <1>10, <1>11, SortedFirst
<1> HIDE DEF q
<1>14. s = <<c>> \o q
  BY DEF q
<1> HIDE DEF s
<1>15. /\ Paints(s, serial, Off) /\ Has(s, {"takeShow"})
       /\ serial => Has(s, {"takeEffect"})
  <2>1. Paints(<<c>> \o q, serial, Off)
    BY <1>1, <1>2, <1>12, PaintsFirst
  <2>2. \A N : Has(<<c>> \o q, N) <=> c[1] \in N \/ Has(q, N)
    BY <1>2, <1>12, HasPrefixed
  <2> QED
    BY <1>12, <1>14, <2>1, <2>2
<1>16. Sorted(s, u, {})
  BY <1>2, <1>11, <1>12, <1>13, <1>14, SortedFirst
<1>17. Sound(s, u)
  <2>1. Off \in 0 .. 3 /\ "show" \notin {} /\ "effect" \notin {} /\ Off = Off
    BY DEF Off
  <2> QED
    BY <1>1, <1>15, <1>16, <2>1, AsksScene
<1>18. Has(s, LightSteps)
  BY <1>15 DEF Has, LightSteps
<1> QED
  BY <1>7, <1>17, <1>18

LEMMA FrameMeets ==
    ASSUME NEW v, NEW u, Starts(v, u), v.want = want, NEW f \in Frames, u.want = Wanted(f)
    PROVE  Meets(HandleFrame(f), v, u)
<1>1. Number \in Ids /\ serial \in BOOLEAN /\ f.data \in Seq(0 .. 255) /\ f.cmd \in Nat
  BY StartsFacts, TcpAssumption
<1>2. \A r \in Seq(Steps) : ~Has(r, LightSteps) /\ u.want = want
          => Meets(IfShow(TRUE) \o r, v, u) /\ Meets(r, v, u)
  BY MeetsNothing
<1>3. /\ Move \in Seq(Steps) /\ ~Has(Move, LightSteps) /\ Fail \in Seq(Steps) /\ ~Has(Fail, LightSteps)
      /\ <<>> \in Seq(Steps) /\ ~Has(<<>>, LightSteps)
      /\ TrackingStop \in Seq(Steps) /\ ~Has(TrackingStop, LightSteps)
      /\ <<<<"kill", 0>>, <<"track", Number>>>> \in Seq(Steps)
      /\ ~Has(<<<<"kill", 0>>, <<"track", Number>>>>, LightSteps)
      /\ \A track \in 0 .. 255 : <<<<"play", track>>>> \in Seq(Steps) /\ ~Has(<<<<"play", track>>>>, LightSteps)
  BY <1>1, LightFree
<1>4. CASE ~ParseFrame(f)
  <2>1. HandleFrame(f) = <<>> /\ u.want = want
    BY <1>4 DEF HandleFrame, Wanted
  <2> QED
    BY <1>2, <1>3, <2>1
<1>5. ASSUME ParseFrame(f), f.cmd \notin {21, 48, 49, 50}
      PROVE  u.want = want
  BY <1>5 DEF Wanted
<1>6. CASE ParseFrame(f) /\ f.cmd = 21
  <2>1. HandleFrame(f) = HandleButton(f.data)
    BY <1>6 DEF HandleFrame
  <2>2. IF f.data = <<>> THEN u.want = v.want
        ELSE u.want = CASE f.data[1] \in {0, 7} -> <<"scene", Off>>
                        [] f.data[1] \in 1 .. 6 -> <<"scene", DirectionScene(f.data[1])>>
                        [] OTHER -> v.want
    <3>1. CASE f.data = <<>>
      BY <1>6, <3>1 DEF Wanted
    <3>2. CASE f.data # <<>> /\ f.data[1] \in {0, 7}
      BY <1>6, <3>2 DEF Wanted
    <3>3. CASE f.data # <<>> /\ f.data[1] \in 1 .. 6
      <4>1. Wanted(f) = <<"scene", DirectionScene(f.data[1])>>
        BY <1>6, <3>3 DEF Wanted
      <4> QED
        BY <3>3, <4>1
    <3>4. CASE f.data # <<>> /\ f.data[1] \notin {0, 7} /\ f.data[1] \notin 1 .. 6
      <4>1. Wanted(f) = want
        BY <1>6, <3>4 DEF Wanted
      <4> QED
        BY <3>4, <4>1
    <3> QED
      BY <3>1, <3>2, <3>3, <3>4
  <2> QED
    BY <1>1, <2>1, <2>2, ButtonMeets
<1>7. CASE ParseFrame(f) /\ f.cmd \in {16, 33}
  <2>1. \/ HandleFrame(f) = HandleVector(f.data)
        \/ HandleFrame(f) = HandleWheelSpeeds(f.data)
    <3>1. CASE f.cmd = 16
      BY <1>7, <3>1 DEF HandleFrame
    <3>2. CASE f.cmd = 33
      BY <1>7, <3>2 DEF HandleFrame
    <3> QED
      BY <1>7, <3>1, <3>2
  <2>2. \/ HandleFrame(f) = Fail
        \/ HandleFrame(f) = IfShow(TRUE) \o Move
    BY <2>1 DEF HandleVector, HandleWheelSpeeds
  <2>3. u.want = want
    BY <1>5, <1>7
  <2> QED
    BY <1>2, <1>3, <2>2, <2>3
<1>8. CASE ParseFrame(f) /\ f.cmd = 48
  <2>1. HandleFrame(f) = HandleLightEffect(f.data)
    BY <1>8 DEF HandleFrame
  <2> DEFINE d == f.data[1]
  <2>2. IF f.data = <<>> THEN u.want = v.want
        ELSE u.want = CASE d = 0 -> <<"scene", Off>>
                        [] d \in 1 .. 5 -> <<"effect", d>>
                        [] d = 6 -> <<IF serial THEN "any" ELSE "effect", 6>>
                        [] OTHER -> v.want
    <3>1. CASE f.data = <<>>
      BY <1>8, <3>1 DEF Wanted
    <3>2. CASE f.data # <<>> /\ d = 0
      BY <1>8, <3>2 DEF Wanted
    <3>3. CASE f.data # <<>> /\ d \in 1 .. 5
      BY <1>8, <3>3 DEF Wanted
    <3>4. CASE f.data # <<>> /\ d = 6
      BY <1>8, <3>4 DEF Wanted
    <3>5. CASE f.data # <<>> /\ d # 0 /\ d \notin 1 .. 5 /\ d # 6
      BY <1>8, <3>5 DEF Wanted
    <3> QED
      BY <3>1, <3>2, <3>3, <3>4, <3>5
  <2> HIDE DEF d
  <2> QED
    BY <1>1, <2>1, <2>2, LightEffectMeets DEF d
<1>9. CASE ParseFrame(f) /\ f.cmd = 49
  <2>1. HandleFrame(f) = ShowStart
    BY <1>9 DEF HandleFrame
  <2>2. u.want = <<"scene", Off>>
    BY <1>9 DEF Wanted
  <2> QED
    BY <2>1, <2>2, ShowStartMeets DEF Meets
<1>10. CASE ParseFrame(f) /\ f.cmd = 50
  <2>1. HandleFrame(f) = StopShow(TRUE)
    BY <1>10 DEF HandleFrame
  <2>2. u.want = IF serial /\ v.want[1] = "effect" THEN v.want ELSE <<"scene", Off>>
    BY <1>10 DEF Wanted
  <2> QED
    BY <2>1, <2>2, ShowStopMeets DEF Meets
<1>11. CASE ParseFrame(f) /\ f.cmd = 51
  <2>1. HandleFrame(f) = HandleAudio(f.data)
    BY <1>11 DEF HandleFrame
  <2>2. f.data # <<>> => f.data[1] \in 0 .. 255
    BY <1>1, FirstByte
  <2>3. (IF f.data = <<>> THEN 0 ELSE f.data[1]) \in 0 .. 255
    BY <2>2
  <2>4. HandleFrame(f) \in Seq(Steps) /\ ~Has(HandleFrame(f), LightSteps)
    BY <1>3, <2>1, <2>3 DEF HandleAudio
  <2>5. u.want = want
    BY <1>5, <1>11
  <2> QED
    BY <1>2, <2>4, <2>5
<1>12. CASE ParseFrame(f) /\ f.cmd = 99
  <2>1. HandleFrame(f) = IfShow(TRUE) \o <<<<"kill", 0>>, <<"track", Number>>>>
    <3>1. HandleFrame(f) = TrackingStart
      BY <1>12 DEF HandleFrame
    <3> QED
      BY <3>1 DEF TrackingStart
  <2>2. u.want = want
    BY <1>5, <1>12
  <2> QED
    BY <1>2, <1>3, <2>1, <2>2
<1>13. CASE ParseFrame(f) /\ f.cmd = 100
  <2>1. HandleFrame(f) = TrackingStop
    BY <1>13 DEF HandleFrame
  <2>2. u.want = want
    BY <1>5, <1>13
  <2> QED
    BY <1>2, <1>3, <2>1, <2>2
<1>14. CASE ParseFrame(f) /\ f.cmd \notin {16, 21, 33, 48, 49, 50, 51, 99, 100}
  <2>1. HandleFrame(f) = <<>>
    BY <1>14 DEF HandleFrame
  <2> QED
    BY <1>2, <1>3, <1>5, <1>14, <2>1
<1> QED
  BY <1>4, <1>6, <1>7, <1>8, <1>9, <1>10, <1>11, <1>12, <1>13, <1>14

-----------------------------------------------------------------------------
(* Every step keeps the lights sound. *)

LEMMA ViewIs ==
    /\ View.serial = serial /\ View.begun = begun /\ View.show = show /\ View.effect = effect
    /\ View.worker = worker /\ View.lamp = lamp /\ View.want = want
  BY DEF View

LEMMA ViewWillBe ==
    /\ View'.serial = serial' /\ View'.begun = begun' /\ View'.show = show'
    /\ View'.effect = effect' /\ View'.worker = worker' /\ View'.lamp = lamp'
    /\ View'.want = want'
  BY DEF View

LEMMA ViewLights ==
    ASSUME TypeOK
    PROVE  Lights(View)
<1>1. begun \in Nat
  BY TcpAssumption DEF TypeOK, FrameTypes
<1> QED
  BY <1>1, ViewIs DEF Lights, TypeOK, FrameTypes, LightTypes

LEMMA OfLightsHas ==
    ASSUME NEW s \in Seq(Steps)
    PROVE  OfLights(s) <=> Has(s, LightSteps)
  BY DEF OfLights, Has

\* A thread goes on with r.
LEMMA ThreadGoes ==
    ASSUME TypeOK, LightsSound, Quiet, serial' = serial, NEW t \in Threads, NEW r \in Seq(Steps),
           todo' = [todo EXCEPT ![t] = r],
           Sound(todo[t], View) => Sound(r, View'),
           ~AtLights(t) => View' = View /\ ~Has(r, LightSteps)
    PROVE  LightsSound'
<1>1. todo \in [Threads -> Seq(Steps)]
  BY DEF TypeOK, FrameTypes
<1>2. /\ todo' \in [Threads -> Seq(Steps)] /\ todo'[t] = r
      /\ \A u \in Threads \ {t} : todo'[u] = todo[u]
  BY <1>1
<1>3. Steps' = Steps
  BY SameSteps
<1>4. todo' \in [Threads -> Seq(Steps)]'
  BY <1>2, <1>3
<1>5. \A u \in Threads \ {t} : AtLights(u)' <=> AtLights(u)
  BY <1>2 DEF AtLights, OfLights
<1>6. CASE Alone(t)
  <2>1. Alone(t)'
    BY <1>5, <1>6 DEF Alone
  <2>2. Sound(todo[t], View)
    BY <1>6 DEF LightsSound
  <2>3. Sound(todo'[t], View')
    BY <1>2, <2>2
  <2> QED
    BY <1>2, <2>1, <2>3, OneAtLights
<1>7. CASE ~Alone(t)
  <2>1. PICK x \in Threads : Alone(x)
    BY DEF LightsSound
  <2>2. x # t /\ ~AtLights(t)
    BY <1>7, <2>1 DEF Alone
  <2>3. ~AtLights(t)'
    <3>1. AtLights(t)' <=> OfLights(r)
      BY <1>2 DEF AtLights, OfLights
    <3> QED
      BY <2>2, <3>1, OfLightsHas
  <2>4. Alone(x)'
    BY <1>5, <2>1, <2>3 DEF Alone
  <2>5. Sound(todo'[x], View')
    <3>1. Sound(todo[x], View)
      BY <2>1 DEF LightsSound
    <3>2. todo'[x] = todo[x] /\ View' = View
      BY <1>2, <2>2
    <3> QED
      BY <3>1, <3>2
  <2> QED
    BY <1>2, <2>4, <2>5, OneAtLights
<1> QED
  BY <1>6, <1>7

LEMMA HeadFacts ==
    ASSUME TypeOK, NEW t \in Threads, todo[t] # <<>>
    PROVE  /\ todo[t][1] \in Steps /\ Rest(t) \in Seq(Steps) /\ todo[t] = <<todo[t][1]>> \o Rest(t)
           /\ todo[t][1][1] \in LightSteps => AtLights(t)
           /\ ~AtLights(t) => ~Has(Rest(t), LightSteps)
           /\ Then(t, <<>>) => todo' = [todo EXCEPT ![t] = Rest(t)]
<1>1. todo[t] \in Seq(Steps)
  BY DEF TypeOK, FrameTypes
<1>2. todo[t][1] \in Steps /\ Rest(t) \in Seq(Steps) /\ todo[t] = <<todo[t][1]>> \o Rest(t)
  BY <1>1, FirstAndRest DEF Rest
<1>3. Has(todo[t], LightSteps) <=> todo[t][1][1] \in LightSteps \/ Has(Rest(t), LightSteps)
  BY <1>2, HasPrefixed
<1>4. AtLights(t) <=> Has(todo[t], LightSteps)
  BY <1>1, OfLightsHas DEF AtLights
<1>5. <<>> \o Rest(t) = Rest(t)
  BY <1>2, ConcatEmptySeq
<1> QED
  BY <1>2, <1>3, <1>4, <1>5 DEF Then

\* Steps that have nothing to do with the lights.
LEMMA OtherSteps ==
    ASSUME TypeOK, LightsSound, Quiet, serial' = serial, View' = View, NEW t \in Threads,
           todo[t] # <<>>, todo[t][1][1] \notin LightSteps,
           Then(t, <<>>) \/ (Raise(t) /\ todo[t][1][1] \in Raising)
    PROVE  LightsSound'
<1> DEFINE a == todo[t][1]
           r == Rest(t)
<1>1. /\ a \in Steps /\ r \in Seq(Steps) /\ todo[t] = <<a>> \o r
      /\ ~AtLights(t) => ~Has(r, LightSteps)
      /\ Then(t, <<>>) => todo' = [todo EXCEPT ![t] = r]
  BY HeadFacts
<1>2. a[1] \notin {"light", "takeShow", "takeEffect", "newShow", "newEffect", "launch", "ifShow", "join"}
  BY DEF LightSteps
<1> HIDE DEF a, r
<1>3. Sound(<<a>> \o r, View) => Sound(r, View)
  <2>1. \A w \in Ids : a # <<"join", w>>
    BY <1>2
  <2> QED
    BY <1>1, <1>2, <2>1, GoesPast
<1>4. CASE Then(t, <<>>)
  <2>1. todo' = [todo EXCEPT ![t] = r] /\ (Sound(todo[t], View) => Sound(r, View'))
    BY <1>1, <1>3, <1>4
  <2> QED
    BY <1>1, <2>1, ThreadGoes
<1>5. CASE Raise(t) /\ todo[t][1][1] \in Raising
  <2>1. <<>> \in Seq(Steps) /\ ~Has(<<>>, LightSteps)
    BY DEF Has
  <2>2. ASSUME Sound(<<a>> \o r, View)
        PROVE  Sound(<<>>, View)
    <3>1. Order(<<a>> \o r, View)
      BY <2>2 DEF Sound
    <3>2. a[1] \in Raising
      BY <1>5 DEF a
    <3>3. ~Has(r, LightSteps)
      BY <1>1, <3>1, <3>2, OrderFirst
    <3> QED
      BY <1>1, <1>3, <2>1, <2>2, <3>3, FreeOfLights
  <2>3. todo' = [todo EXCEPT ![t] = <<>>] /\ (Sound(todo[t], View) => Sound(<<>>, View'))
    BY <1>1, <1>5, <2>2 DEF Raise
  <2> QED
    BY <2>1, <2>3, ThreadGoes
<1> QED
  BY <1>4, <1>5

LEMMA CheckShowLights ==
    ASSUME TypeOK, LightsSound, Quiet, NEW t \in Threads, CheckShow(t)
    PROVE  LightsSound'
<1> DEFINE a == todo[t][1]
           r == Rest(t)
<1>1. todo[t] # <<>> /\ a[1] = "ifShow" /\ serial' = serial /\ View' = View
  BY DEF CheckShow, At, View, frame, lights, story
<1>2. /\ a \in Steps /\ r \in Seq(Steps) /\ todo[t] = <<a>> \o r
      /\ AtLights(t)
      /\ Then(t, <<>>) => todo' = [todo EXCEPT ![t] = r]
  BY <1>1, HeadFacts DEF LightSteps
<1>3. Arg(t) = a[2] /\ a[2] \in BOOLEAN
  <2>1. a = <<"ifShow", a[2]>> /\ a[2] \in BOOLEAN
    BY <1>1, <1>2 DEF Steps
  <2> QED
    BY <2>1 DEF Arg
<1>4. Then(t, IF Running(show) THEN StopShow(a[2]) ELSE <<>>)
  BY <1>3 DEF CheckShow
<1> HIDE DEF a, r
<1>5. CASE show = None
  <2>1. Then(t, <<>>)
    BY <1>4, <1>5 DEF Running
  <2>2. Sound(<<a>> \o r, View) => Sound(r, View)
    <3>1. /\ a[1] \notin {"light", "takeShow", "takeEffect", "newShow", "newEffect", "launch"}
          /\ View.show = None
          /\ \A w \in Ids : a # <<"join", w>>
      BY <1>1, <1>5, ViewIs
    <3> QED
      BY <1>2, <3>1, GoesPast
  <2>3. todo' = [todo EXCEPT ![t] = r] /\ (Sound(todo[t], View) => Sound(r, View'))
    BY <1>1, <1>2, <2>1, <2>2
  <2> QED
    BY <1>1, <1>2, <2>3, ThreadGoes
<1>6. CASE show # None /\ Alone(t)
  <2>1. Sound(<<a>> \o r, View)
    BY <1>2, <1>6 DEF LightsSound
  <2>2. Running(show)
    <3>1. WorkerSlots(<<a>> \o r, View) /\ (<<a>> \o r)[1] = a
      BY <1>2, <2>1, Prefixed DEF Sound
    <3>2. show \in Ids
      BY <1>6, ViewIs, ViewLights, SlotNumbers
    <3>3. Active(show, View) /\ worker[show].st # "new"
      BY <1>1, <1>6, <3>1, <3>2, ViewIs DEF WorkerSlots
    <3> QED
      BY <1>6, <3>3, ViewIs DEF Active, Running
  <2> DEFINE off == OffStep(serial)
             m == IF a[2] THEN <<off>> \o r ELSE r
             z == <<"takeShow", 0>>
  <2>3. off \in Steps /\ Scene(Off) = <<off>>
    <3>1. serial \in BOOLEAN /\ Off \in 0 .. 6 /\ Off <= 3 /\ <<>> \in Seq(Steps)
      BY DEF TypeOK, FrameTypes, Off
    <3>2. /\ OffStep(serial) \in Steps /\ LastStep(serial, Off) = OffStep(serial)
          /\ ~Split(serial, Off)
      BY <3>1, SceneIs, LastOff
    <3>3. Scene(Off) \o <<>> = <<OffStep(serial)>> \o <<>>
      BY <3>1, <3>2, SceneIs
    <3>4. Scene(Off) \in Seq(Steps) /\ <<OffStep(serial)>> \in Seq(Steps)
      BY <3>1, <3>2, SceneSteps
    <3> QED
      BY <3>2, <3>3, <3>4, ConcatEmptySeq
  <2>4. z \in Steps
    BY DEF Steps
  <2> HIDE DEF off, z
  <2>5. m \in Seq(Steps)
    BY <1>2, <2>3, Prefixed
  <2>6. StopShow(a[2]) \o r = <<z>> \o m
    <3>1. StopShow(a[2]) = <<z>> \o IF a[2] THEN <<off>> ELSE <<>>
      BY <2>3 DEF StopShow, z
    <3>2. <<z>> \in Seq(Steps) /\ <<off>> \in Seq(Steps) /\ <<>> \in Seq(Steps)
      BY <2>3, <2>4
    <3>3. CASE a[2]
      <4>1. StopShow(a[2]) \o r = (<<z>> \o <<off>>) \o r
        BY <3>1, <3>3
      <4>2. (<<z>> \o <<off>>) \o r = <<z>> \o (<<off>> \o r)
        BY <1>2, <3>2, Regroup
      <4> QED
        BY <3>3, <4>1, <4>2
    <3>4. CASE ~a[2]
      <4>1. StopShow(a[2]) \o r = (<<z>> \o <<>>) \o r
        BY <3>1, <3>4
      <4>2. <<z>> \o <<>> = <<z>>
        BY <3>2, ConcatEmptySeq
      <4> QED
        BY <3>4, <4>1, <4>2
    <3> QED
      BY <3>3, <3>4
  <2>7. todo' = [todo EXCEPT ![t] = <<z>> \o m]
    BY <1>4, <2>2, <2>6 DEF Then, r
  <2>8. IF a[2] THEN m = <<OffStep(View.serial)>> \o r ELSE m = r
    BY ViewIs DEF off
  <2>9. OffStep(View.serial) \in Steps /\ View.show # None
    BY <1>6, <2>3, ViewIs DEF off
  <2> HIDE DEF m
  <2>10. Sound(<<z>> \o m, View)
    BY <1>1, <1>2, <2>1, <2>8, <2>9, StopsShow DEF z
  <2>11. <<z>> \o m \in Seq(Steps)
    BY <2>4, <2>5, Prefixed
  <2> QED
    BY <1>1, <1>2, <2>7, <2>10, <2>11, ThreadGoes
<1>7. CASE ~Alone(t)
  <2>1. PICK x \in Threads : Alone(x)
    BY DEF LightsSound
  <2> QED
    BY <1>2, <1>7, <2>1 DEF Alone
<1> QED
  BY <1>5, <1>6, <1>7

LEMMA AtTheLights ==
    ASSUME TypeOK, LightsSound, Quiet, NEW t \in Threads, todo[t] # <<>>,
           todo[t][1][1] \in LightSteps
    PROVE  AtLights(t) /\ Alone(t) /\ Sound(todo[t], View)
<1>1. AtLights(t)
  BY HeadFacts
<1>2. PICK x \in Threads : Alone(x)
  BY DEF LightsSound
<1>3. Alone(t)
  BY <1>1, <1>2 DEF Alone
<1> QED
  BY <1>1, <1>3 DEF LightsSound

LEMMA ToldView ==
    ASSUME TypeOK, NEW w \in 0 .. MaxFrames
    PROVE  \A x \in Ids : /\ x # w => Told(w)[x].told = worker[x].told
                          /\ worker[x].told => Told(w)[x].told
                          /\ Told(w)[x].st = worker[x].st /\ Told(w)[x].show = worker[x].show
                          /\ Told(w)[x].out = worker[x].out
<1>1. worker \in [Ids -> [scenes : Seq(0 .. 3), show : BOOLEAN, st : States, at : Nat,
                          out : Seq(PacketsOfLamps), told : BOOLEAN]]
  BY DEF TypeOK, LightTypes
<1>2. CASE w = None
  BY <1>2 DEF Told
<1>3. CASE w # None
  <2> DEFINE told == [worker[w] EXCEPT !.told = TRUE]
  <2>1. Told(w) = [worker EXCEPT ![w] = told]
    BY <1>3 DEF Told
  <2>2. w \in Ids
    BY <1>3 DEF Ids, None
  <2>3. /\ told.told /\ told.st = worker[w].st /\ told.show = worker[w].show
        /\ told.out = worker[w].out
    BY <1>1, <2>2
  <2> HIDE DEF told
  <2>4. \A x \in Ids : Told(w)[x] = IF x = w THEN told ELSE worker[x]
    BY <1>1, <2>1
  <2> QED
    BY <2>3, <2>4
<1> QED
  BY <1>2, <1>3

\* What a light step leaves: the rest, after the steps more.
LEMMA LightStepGoes ==
    ASSUME TypeOK, LightsSound, Quiet, NEW t \in Threads, todo[t] # <<>>,
           todo[t][1][1] \in LightSteps, serial' = serial, NEW r \in Seq(Steps),
           todo' = [todo EXCEPT ![t] = r], Sound(todo[t], View) => Sound(r, View')
    PROVE  LightsSound'
  BY AtTheLights, ThreadGoes

LEMMA TakeShowLights ==
    ASSUME TypeOK, LightsSound, Quiet, NEW t \in Threads, TakeShow(t)
    PROVE  LightsSound'
<1> DEFINE a == todo[t][1]
           r == Rest(t)
           b == <<"join", show>>
           v == View
           u == View'
<1>1. /\ todo[t] # <<>> /\ a[1] = "takeShow" /\ a[1] \in LightSteps
      /\ serial' = serial /\ begun' = begun /\ lamp' = lamp /\ want' = want
      /\ effect' = effect /\ show' = None /\ worker' = Told(show) /\ Then(t, <<b>>)
  BY DEF TakeShow, At, frame, story, LightSteps
<1>2. a \in Steps /\ r \in Seq(Steps) /\ todo[t] = <<a>> \o r
  BY <1>1, HeadFacts
<1>3. show \in 0 .. MaxFrames /\ b \in Steps
  BY DEF TypeOK, LightTypes, Steps
<1>4. /\ v.serial = serial /\ v.begun = begun /\ v.show = show /\ v.effect = effect
      /\ v.worker = worker /\ v.lamp = lamp /\ v.want = want
      /\ u.serial = serial' /\ u.begun = begun' /\ u.show = show' /\ u.effect = effect'
      /\ u.worker = worker' /\ u.lamp = lamp' /\ u.want = want'
      /\ Lights(v)
  BY ViewIs, ViewWillBe, ViewLights
<1>5. \A x \in Ids : /\ x # show => Told(show)[x].told = worker[x].told
                     /\ worker[x].told => Told(show)[x].told
                     /\ Told(show)[x].st = worker[x].st /\ Told(show)[x].show = worker[x].show
                     /\ Told(show)[x].out = worker[x].out
  BY <1>3, ToldView
<1>6. todo' = [todo EXCEPT ![t] = <<b>> \o r]
  BY <1>1 DEF Then
<1>7. <<b>> \o r \in Seq(Steps)
  BY <1>2, <1>3, Prefixed
<1> HIDE DEF a, r, v, u
<1>8. Alike(u, v)
  BY <1>1, <1>4, <1>5 DEF Alike
<1>9. ASSUME Sound(<<a>> \o r, v)
      PROVE  Sound(<<b>> \o r, u)
  <2>1. u.show = None /\ u.effect = v.effect
        /\ \A w \in Ids : w # v.show => u.worker[w].told = v.worker[w].told
    BY <1>1, <1>4, <1>5
  <2>2. Sound(<<<<"join", v.show>>>> \o r, u)
    BY <1>1, <1>2, <1>4, <1>8, <1>9, <2>1, TakesShow
  <2> QED
    BY <1>4, <2>2
<1>10. Sound(todo[t], View) => Sound(<<b>> \o r, View')
  BY <1>2, <1>9 DEF u, v
<1> QED
  BY <1>1, <1>6, <1>7, <1>10, LightStepGoes DEF a

LEMMA TakeEffectLights ==
    ASSUME TypeOK, LightsSound, Quiet, NEW t \in Threads, TakeEffect(t)
    PROVE  LightsSound'
<1> DEFINE a == todo[t][1]
           r == Rest(t)
           b == <<"join", effect>>
           v == View
           u == View'
<1>1. /\ todo[t] # <<>> /\ a[1] = "takeEffect" /\ a[1] \in LightSteps
      /\ serial' = serial /\ begun' = begun /\ lamp' = lamp /\ want' = want
      /\ effect' = None /\ show' = show /\ worker' = Told(effect) /\ Then(t, <<b>>)
  BY DEF TakeEffect, At, frame, story, LightSteps
<1>2. a \in Steps /\ r \in Seq(Steps) /\ todo[t] = <<a>> \o r
  BY <1>1, HeadFacts
<1>3. effect \in 0 .. MaxFrames /\ b \in Steps
  BY DEF TypeOK, LightTypes, Steps
<1>4. /\ v.serial = serial /\ v.begun = begun /\ v.show = show /\ v.effect = effect
      /\ v.worker = worker /\ v.lamp = lamp /\ v.want = want
      /\ u.serial = serial' /\ u.begun = begun' /\ u.show = show' /\ u.effect = effect'
      /\ u.worker = worker' /\ u.lamp = lamp' /\ u.want = want'
      /\ Lights(v)
  BY ViewIs, ViewWillBe, ViewLights
<1>5. \A x \in Ids : /\ x # effect => Told(effect)[x].told = worker[x].told
                     /\ worker[x].told => Told(effect)[x].told
                     /\ Told(effect)[x].st = worker[x].st /\ Told(effect)[x].show = worker[x].show
                     /\ Told(effect)[x].out = worker[x].out
  BY <1>3, ToldView
<1>6. todo' = [todo EXCEPT ![t] = <<b>> \o r]
  BY <1>1 DEF Then
<1>7. <<b>> \o r \in Seq(Steps)
  BY <1>2, <1>3, Prefixed
<1> HIDE DEF a, r, v, u
<1>8. Alike(u, v)
  BY <1>1, <1>4, <1>5 DEF Alike
<1>9. ASSUME Sound(<<a>> \o r, v)
      PROVE  Sound(<<b>> \o r, u)
  <2>1. u.effect = None /\ u.show = v.show
        /\ \A w \in Ids : w # v.effect => u.worker[w].told = v.worker[w].told
    BY <1>1, <1>4, <1>5
  <2>2. Sound(<<<<"join", v.effect>>>> \o r, u)
    BY <1>1, <1>2, <1>4, <1>8, <1>9, <2>1, TakesEffect
  <2> QED
    BY <1>4, <2>2
<1>10. Sound(todo[t], View) => Sound(<<b>> \o r, View')
  BY <1>2, <1>9 DEF u, v
<1> QED
  BY <1>1, <1>6, <1>7, <1>10, LightStepGoes DEF a

LEMMA JoinLights ==
    ASSUME TypeOK, LightsSound, Quiet, Quiet', NEW t \in Threads, Join(t)
    PROVE  LightsSound'
<1> DEFINE a == todo[t][1]
           r == Rest(t)
<1>1. /\ todo[t] # <<>> /\ a[1] = "join" /\ a[1] \in LightSteps
      /\ serial' = serial /\ View' = View
  BY DEF Join, At, frame, lights, story, LightSteps, View
<1>2. /\ a \in Steps /\ r \in Seq(Steps) /\ todo[t] = <<a>> \o r
      /\ Then(t, <<>>) => todo' = [todo EXCEPT ![t] = r]
  BY <1>1, HeadFacts
<1>3. Arg(t) = a[2] /\ a = <<"join", a[2]>> /\ a[2] \in 0 .. MaxFrames
  <2>1. a = <<"join", a[2]>> /\ a[2] \in 0 .. MaxFrames
    BY <1>1, <1>2 DEF Steps
  <2> QED
    BY <2>1 DEF Arg
<1>4. /\ ~Running(a[2])
      /\ IF a[2] # None /\ worker[a[2]].st = "new" THEN Raise(t) ELSE Then(t, <<>>)
  BY <1>3 DEF Join, Quiet
<1> HIDE DEF a, r
<1>5. Sound(<<a>> \o r, View)
  BY <1>1, <1>2, AtTheLights DEF a
<1>6. worker[a[2]].st # "new" \/ a[2] = None
  <2>1. a[2] # None => a[2] \in Ids
    BY <1>3 DEF Ids, None
  <2>2. WorkerSlots(<<a>> \o r, View) /\ (<<a>> \o r)[1] = a
    BY <1>2, <1>5, Prefixed DEF Sound
  <2> QED
    BY <1>1, <2>1, <2>2, ViewIs DEF WorkerSlots
<1>7. todo' = [todo EXCEPT ![t] = r]
  BY <1>2, <1>4, <1>6
<1>8. Sound(r, View)
  <2>1. \A w \in Ids : a = <<"join", w>> => ~Active(w, View)
    <3>1. SUFFICES ASSUME NEW w \in Ids, a = <<"join", w>>
                   PROVE  ~Active(w, View)
      OBVIOUS
    <3>2. w = a[2] /\ w # None
      BY <1>3, <3>1 DEF Ids, None
    <3> QED
      BY <1>4, <1>6, <3>2, ViewIs DEF Running, Active
  <2>2. a[1] \notin {"light", "takeShow", "takeEffect", "newShow", "newEffect", "launch", "ifShow"}
    BY <1>1
  <2> QED
    BY <1>2, <1>5, <2>1, <2>2, GoesPast
<1> QED
  BY <1>1, <1>2, <1>7, <1>8, LightStepGoes DEF a

LEMMA LightLights ==
    ASSUME TypeOK, LightsSound, Quiet, NEW t \in Threads, Light(t)
    PROVE  LightsSound'
<1> DEFINE a == todo[t][1]
           r == Rest(t)
           v == View
           u == View'
<1>1. /\ todo[t] # <<>> /\ a[1] = "light" /\ a[1] \in LightSteps /\ Then(t, <<>>)
      /\ serial' = serial /\ begun' = begun /\ want' = want /\ show' = show /\ effect' = effect
      /\ worker' = worker /\ lamp' = Lit(a[2])
  BY DEF Light, At, Arg, frame, story, LightSteps, Quiet
<1>2. /\ a \in Steps /\ r \in Seq(Steps) /\ todo[t] = <<a>> \o r
      /\ todo' = [todo EXCEPT ![t] = r]
  BY <1>1, HeadFacts
<1>3. /\ v.serial = serial /\ v.begun = begun /\ v.show = show /\ v.effect = effect
      /\ v.worker = worker /\ v.lamp = lamp /\ v.want = want
      /\ u.serial = serial' /\ u.begun = begun' /\ u.show = show' /\ u.effect = effect'
      /\ u.worker = worker' /\ u.lamp = lamp' /\ u.want = want'
  BY ViewIs, ViewWillBe
<1>4. want = <<want[1], want[2]>> /\ serial \in BOOLEAN
  BY DEF TypeOK, LightTypes, FrameTypes
<1>5. Lit(a[2]) = Switched(a[2], lamp)
  BY DEF Lit, Switched
<1> HIDE DEF a, r, v, u
<1>6. ASSUME Sound(<<a>> \o r, v)
      PROVE  Sound(r, u)
  <2>1. u.lamp = Switched(a[2], v.lamp) /\ v.want = <<v.want[1], v.want[2]>> /\ v.serial \in BOOLEAN
    BY <1>1, <1>3, <1>4, <1>5
  <2>2. /\ u.serial = v.serial /\ u.begun = v.begun /\ u.show = v.show /\ u.effect = v.effect
        /\ u.worker = v.worker /\ u.want = v.want
    BY <1>1, <1>3
  <2> QED
    BY <1>1, <1>2, <1>6, <2>1, <2>2, Writes
<1>7. Sound(todo[t], View) => Sound(r, View')
  BY <1>2, <1>6 DEF u, v
<1> QED
  BY <1>1, <1>2, <1>7, LightStepGoes DEF a

LEMMA RegisterLights ==
    ASSUME TypeOK, LightsSound, Quiet, NEW t \in Threads, Register(t)
    PROVE  LightsSound'
<1> DEFINE a == todo[t][1]
           r == Rest(t)
           w == a[2][1]
           isShow == At(t, "newShow")
           one == [scenes |-> IF isShow THEN ShowSteps ELSE Patterns[a[2][2]],
                   show |-> isShow, st |-> "new", at |-> 0, out |-> <<>>, told |-> FALSE]
           v == View
           u == View'
<1>1. /\ todo[t] # <<>> /\ a[1] \in New /\ (isShow <=> a[1] = "newShow") /\ Then(t, <<>>)
      /\ serial' = serial /\ begun' = begun /\ want' = want /\ lamp' = lamp
      /\ show' = IF isShow THEN w ELSE show
      /\ effect' = IF isShow THEN effect ELSE w
      /\ worker' = [worker EXCEPT ![w] = one]
  BY DEF Register, At, Arg, frame, story, New
<1>2. /\ a \in Steps /\ r \in Seq(Steps) /\ todo[t] = <<a>> \o r
      /\ todo' = [todo EXCEPT ![t] = r]
  BY <1>1, HeadFacts
<1>3. w \in Ids
  <2>1. a[1] = "newShow" \/ a[1] = "newEffect"
    BY <1>1 DEF New
  <2>2. a[2] \in Ids \X {0} \/ a[2] \in Ids \X DOMAIN Patterns
    BY <1>2, <2>1, Arguments
  <2> QED
    BY <2>2
<1>4. one.st = "new" /\ (one.show <=> isShow) /\ ~one.told
  <2>1. isShow \in BOOLEAN
    BY DEF At
  <2> HIDE DEF isShow
  <2> QED
    BY <2>1
<1>5. /\ v.serial = serial /\ v.begun = begun /\ v.show = show /\ v.effect = effect
      /\ v.worker = worker /\ v.lamp = lamp /\ v.want = want
      /\ u.serial = serial' /\ u.begun = begun' /\ u.show = show' /\ u.effect = effect'
      /\ u.worker = worker' /\ u.lamp = lamp' /\ u.want = want'
      /\ Lights(v)
  BY ViewIs, ViewWillBe, ViewLights
<1>6. a[1] \in LightSteps
  BY <1>1, LightStepsAre
<1> HIDE DEF a, r, v, u, w, one, isShow
<1>7. worker'[w] = one /\ \A x \in Ids \ {w} : worker'[x] = worker[x]
  BY <1>1, <1>3 DEF TypeOK, LightTypes
<1>8. ASSUME Sound(<<a>> \o r, v)
      PROVE  Sound(r, u)
  <2>1. /\ u.serial = v.serial /\ u.begun = v.begun /\ u.lamp = v.lamp /\ u.want = v.want
        /\ u.show = IF a[1] = "newShow" THEN w ELSE v.show
        /\ u.effect = IF a[1] = "newShow" THEN v.effect ELSE w
    BY <1>1, <1>5
  <2>2. /\ u.worker[w].st = "new" /\ (u.worker[w].show <=> a[1] = "newShow") /\ ~u.worker[w].told
        /\ \A x \in Ids \ {w} : u.worker[x] = v.worker[x]
    BY <1>1, <1>4, <1>5, <1>7
  <2>3. w = a[2][1]
    BY DEF w
  <2>4. a \in Steps /\ r \in Seq(Steps) /\ a[1] \in New /\ Lights(v)
    BY <1>1, <1>2, <1>5
  <2> QED
    BY ONLY <2>1, <2>2, <2>3, <2>4, <1>8, Registers
<1>9. Sound(todo[t], View) => Sound(r, View')
  BY <1>2, <1>8 DEF u, v
<1> QED
  BY <1>1, <1>2, <1>6, <1>9, LightStepGoes DEF a

LEMMA LaunchLights ==
    ASSUME TypeOK, WorkersSound, LightsSound, Quiet, NEW t \in Threads, Launch(t)
    PROVE  LightsSound'
<1> DEFINE a == todo[t][1]
           r == Rest(t)
           w == a[2]
           one == [worker[w] EXCEPT !.st = "turn"]
           v == View
           u == View'
<1>1. /\ todo[t] # <<>> /\ a[1] = "launch" /\ a[1] \in LightSteps /\ Then(t, <<>>)
      /\ serial' = serial /\ begun' = begun /\ want' = want /\ lamp' = lamp
      /\ show' = show /\ effect' = effect
      /\ worker' = [worker EXCEPT ![w].st = "turn"]
  BY DEF Launch, At, Arg, frame, story, LightSteps
<1>2. /\ a \in Steps /\ r \in Seq(Steps) /\ todo[t] = <<a>> \o r
      /\ todo' = [todo EXCEPT ![t] = r]
  BY <1>1, HeadFacts
<1>3. w \in Ids /\ a = <<"launch", w>>
  BY <1>1, <1>2 DEF Steps
<1>4. /\ v.serial = serial /\ v.begun = begun /\ v.show = show /\ v.effect = effect
      /\ v.worker = worker /\ v.lamp = lamp /\ v.want = want
      /\ u.serial = serial' /\ u.begun = begun' /\ u.show = show' /\ u.effect = effect'
      /\ u.worker = worker' /\ u.lamp = lamp' /\ u.want = want'
      /\ Lights(v)
  BY ViewIs, ViewWillBe, ViewLights
<1>5. worker[w].st = "new"
  BY <1>1 DEF WorkersSound
<1>6. worker' = [worker EXCEPT ![w] = one]
  BY <1>1
<1>7. one.st = "turn" /\ one.show = worker[w].show /\ one.told = worker[w].told
  BY <1>3 DEF TypeOK, LightTypes
<1> HIDE DEF a, r, v, u, w, one
<1>8. worker'[w] = one /\ \A x \in Ids \ {w} : worker'[x] = worker[x]
  BY <1>3, <1>6 DEF TypeOK, LightTypes
<1>9. ASSUME Sound(<<a>> \o r, v)
      PROVE  Sound(r, u)
  <2>1. /\ u.serial = v.serial /\ u.begun = v.begun /\ u.lamp = v.lamp /\ u.want = v.want
        /\ u.show = v.show /\ u.effect = v.effect
    BY <1>1, <1>4
  <2>2. /\ v.worker[w].st = "new" /\ u.worker[w].st = "turn"
        /\ (u.worker[w].show <=> v.worker[w].show) /\ (u.worker[w].told <=> v.worker[w].told)
        /\ \A x \in Ids \ {w} : u.worker[x] = v.worker[x]
    BY <1>4, <1>5, <1>7, <1>8
  <2> QED
    BY <1>2, <1>3, <1>4, <1>9, <2>1, <2>2, Launches
<1>10. Sound(todo[t], View) => Sound(r, View')
  BY <1>2, <1>9 DEF u, v
<1> QED
  BY <1>1, <1>2, <1>10, LightStepGoes DEF a

LEMMA StepLights ==
    ASSUME IInv, LightsSound, Quiet, Quiet', NEW t \in Threads, Step(t)
    PROVE  LightsSound'
<1>1. TypeOK /\ WorkersSound
  BY DEF IInv
<1>2. CASE CancelMotion(t) \/ StartMotion(t) \/ RequestMotionStop(t)
  <2>1. todo[t] # <<>> /\ todo[t][1][1] \in {"cancel", "move", "stop"} /\ Then(t, <<>>)
    BY <1>2 DEF CancelMotion, StartMotion, RequestMotionStop, At
  <2>2. serial' = serial /\ View' = View
    BY <1>2 DEF CancelMotion, StartMotion, RequestMotionStop, frame, lights, story, View
  <2>3. todo[t][1][1] \notin LightSteps
    BY <2>1 DEF LightSteps
  <2> QED
    BY <1>1, <2>1, <2>2, <2>3, OtherSteps
<1>3. CASE Play(t) \/ KillTrackers(t) \/ StartTracker(t) \/ Refuse(t)
  <2>1. /\ todo[t] # <<>> /\ todo[t][1][1] \in Raising
        /\ Then(t, <<>>) \/ Raise(t)
    BY <1>3 DEF Play, KillTrackers, StartTracker, Refuse, At, Raising
  <2>2. serial' = serial /\ View' = View
    BY <1>3 DEF Play, KillTrackers, StartTracker, Refuse, frame, lights, story, View
  <2>3. todo[t][1][1] \notin LightSteps
    BY <2>1 DEF LightSteps, Raising
  <2> QED
    BY <1>1, <2>1, <2>2, <2>3, OtherSteps
<1>4. CASE CheckShow(t)
  BY <1>1, <1>4, CheckShowLights
<1>5. CASE TakeShow(t)
  BY <1>1, <1>5, TakeShowLights
<1>6. CASE TakeEffect(t)
  BY <1>1, <1>6, TakeEffectLights
<1>7. CASE Join(t)
  BY <1>1, <1>7, JoinLights
<1>8. CASE Light(t)
  BY <1>1, <1>8, LightLights
<1>9. CASE Register(t)
  BY <1>1, <1>9, RegisterLights
<1>10. CASE Launch(t)
  BY <1>1, <1>10, LaunchLights
<1> QED
  BY <1>2, <1>3, <1>4, <1>5, <1>6, <1>7, <1>8, <1>9, <1>10 DEF Step

\* Something else than a thread goes on.
LEMMA NoThreadGoes ==
    ASSUME TypeOK, LightsSound, Quiet, serial' = serial, todo' = todo,
           \A s \in Seq(Steps) : Sound(s, View) => Sound(s, View')
    PROVE  LightsSound'
<1>1. PICK x \in Threads : Alone(x)
  BY DEF LightsSound
<1>2. todo \in [Threads -> Seq(Steps)]
  BY DEF TypeOK, FrameTypes
<1>3. Alone(x)'
  BY <1>1 DEF Alone, AtLights, OfLights
<1>4. Sound(todo'[x], View')
  <2>1. Sound(todo[x], View) /\ todo[x] \in Seq(Steps)
    BY <1>1, <1>2 DEF LightsSound
  <2> QED
    BY <2>1
<1> QED
  BY <1>2, <1>3, <1>4, OneAtLights

LEMMA BecomeView ==
    ASSUME TypeOK, NEW w \in Ids, NEW st, NEW at, NEW out, Become(w, st, at, out)
    PROVE  /\ \A x \in Ids \ {w} : worker'[x] = worker[x]
           /\ worker'[w].st = st
           /\ st # "done" => /\ worker'[w].out = out /\ worker'[w].show = worker[w].show
                             /\ worker'[w].told = worker[w].told
<1>1. worker \in [Ids -> [scenes : Seq(0 .. 3), show : BOOLEAN, st : States, at : Nat,
                          out : Seq(PacketsOfLamps), told : BOOLEAN]]
  BY DEF TypeOK, LightTypes
<1>2. CASE st = "done"
  <2>1. worker' = [worker EXCEPT ![w] = Over]
    BY <1>2 DEF Become
  <2>2. Over.st = "done"
    BY DEF Over
  <2> QED
    BY <1>1, <1>2, <2>1, <2>2
<1>3. CASE st # "done"
  <2> DEFINE one == [worker[w] EXCEPT !.st = st, !.at = at, !.out = out]
  <2>1. worker' = [worker EXCEPT ![w].st = st, ![w].at = at, ![w].out = out]
    BY <1>3 DEF Become
  <2>2. worker' = [worker EXCEPT ![w] = [worker[w] EXCEPT !.st = st, !.at = at, !.out = out]]
    BY <2>1 DEF TypeOK, LightTypes
  <2>3. one.st = st /\ one.out = out /\ one.show = worker[w].show /\ one.told = worker[w].told
    BY <1>1
  <2> HIDE DEF one
  <2>4. worker' = [worker EXCEPT ![w] = one]
    BY <2>2 DEF one
  <2> QED
    BY <1>1, <2>3, <2>4
<1> QED
  BY <1>2, <1>3

LEMMA OffIs ==
    ASSUME serial \in BOOLEAN
    PROVE  Packets(Off) = <<OffPacket(serial)>>
<1>1. CASE ~serial
  BY <1>1 DEF Packets, Off, OffPacket
<1>2. CASE serial
  BY <1>2 DEF Packets, Off, On, Left, Right, OffPacket
<1> QED
  BY <1>1, <1>2

LEMMA NextSceneLights ==
    ASSUME TypeOK, LightsSound, Quiet, NEW w \in Ids, NextScene(w)
    PROVE  LightsSound'
<1> DEFINE v == View
           u == View'
<1>1. /\ serial' = serial /\ begun' = begun /\ want' = want /\ lamp' = lamp
      /\ show' = show /\ effect' = effect /\ todo' = todo /\ worker[w].st = "turn"
  BY DEF NextScene, frame, story
<1>2. /\ v.serial = serial /\ v.begun = begun /\ v.show = show /\ v.effect = effect
      /\ v.worker = worker /\ v.lamp = lamp /\ v.want = want
      /\ u.serial = serial' /\ u.begun = begun' /\ u.show = show' /\ u.effect = effect'
      /\ u.worker = worker' /\ u.lamp = lamp' /\ u.want = want'
      /\ Lights(v)
  BY ViewIs, ViewWillBe, ViewLights
<1>3. serial \in BOOLEAN
  BY DEF TypeOK, FrameTypes
<1>4. /\ worker'[w].st \in {"write", "dark", "clear"}
      /\ worker'[w].show = worker[w].show /\ worker'[w].told = worker[w].told
      /\ worker'[w].st = "dark" => worker'[w].show /\ worker'[w].out = <<OffPacket(serial)>>
      /\ worker'[w].st = "clear" => ~worker'[w].show /\ worker'[w].told
      /\ \A x \in Ids \ {w} : worker'[x] = worker[x]
  <2> DEFINE over == worker[w].at = Len(worker[w].scenes)
             next == IF over THEN 1 ELSE worker[w].at + 1
  <2>1. CASE worker[w].show /\ (worker[w].told \/ over)
    <3>1. Become(w, "dark", worker[w].at, Packets(Off))
      BY <2>1 DEF NextScene
    <3>2. Packets(Off) = <<OffPacket(serial)>>
      BY <1>3, OffIs
    <3>3. /\ \A x \in Ids \ {w} : worker'[x] = worker[x]
          /\ worker'[w].st = "dark"
          /\ worker'[w].out = Packets(Off) /\ worker'[w].show = worker[w].show
          /\ worker'[w].told = worker[w].told
      BY <3>1, BecomeView
    <3> QED
      BY <2>1, <3>2, <3>3
  <2>2. CASE ~worker[w].show /\ worker[w].told
    <3>1. Become(w, "clear", worker[w].at, <<>>)
      BY <2>2 DEF NextScene
    <3> QED
      BY <2>2, <3>1, BecomeView
  <2>3. CASE ~(worker[w].show /\ (worker[w].told \/ over)) /\ ~(~worker[w].show /\ worker[w].told)
    <3>1. Become(w, "write", next, Packets(worker[w].scenes[next]))
      BY <2>3 DEF NextScene
    <3> QED
      BY <3>1, BecomeView
  <2> QED
    BY <2>1, <2>2, <2>3
<1> HIDE DEF v, u
<1>5. ASSUME NEW s \in Seq(Steps), Sound(s, v)
      PROVE  Sound(s, u)
  <2>1. /\ u.serial = v.serial /\ u.begun = v.begun /\ u.want = v.want
        /\ u.show = v.show /\ u.effect = v.effect /\ u.lamp = v.lamp
    BY <1>1, <1>2
  <2>2. /\ v.worker[w].st = "turn" /\ u.worker[w].st \in {"write", "dark", "clear"}
        /\ u.worker[w].show <=> v.worker[w].show
        /\ u.worker[w].told <=> v.worker[w].told
        /\ u.worker[w].st = "dark" => u.worker[w].show /\ u.worker[w].out = <<OffPacket(u.serial)>>
        /\ u.worker[w].st = "clear" => ~u.worker[w].show /\ u.worker[w].told
        /\ \A x \in Ids \ {w} : u.worker[x] = v.worker[x]
    BY <1>1, <1>2, <1>4
  <2>3. Lights(v)
    BY <1>2
  <2> QED
    BY ONLY <2>1, <2>2, <2>3, <1>5, w \in Ids, Turns
<1>6. \A s \in Seq(Steps) : Sound(s, View) => Sound(s, View')
  BY <1>5 DEF v, u
<1> QED
  BY <1>1, <1>6, NoThreadGoes

LEMMA WritePacketLights ==
    ASSUME TypeOK, LightsSound, Quiet, NEW w \in Ids, WritePacket(w)
    PROVE  LightsSound'
<1> DEFINE v == View
           u == View'
           after == IF Len(worker[w].out) > 1 THEN worker[w].st
                    ELSE IF worker[w].st = "dark" THEN "clear" ELSE "turn"
<1>1. /\ serial' = serial /\ begun' = begun /\ want' = want
      /\ show' = show /\ effect' = effect /\ todo' = todo /\ worker[w].st \in {"write", "dark"}
      /\ lamp' = Lit(worker[w].out[1])
      /\ Become(w, after, worker[w].at, Tail(worker[w].out))
  BY DEF WritePacket, frame, story, Quiet
<1>2. /\ v.serial = serial /\ v.begun = begun /\ v.show = show /\ v.effect = effect
      /\ v.worker = worker /\ v.lamp = lamp /\ v.want = want
      /\ u.serial = serial' /\ u.begun = begun' /\ u.show = show' /\ u.effect = effect'
      /\ u.worker = worker' /\ u.lamp = lamp' /\ u.want = want'
      /\ Lights(v)
  BY ViewIs, ViewWillBe, ViewLights
<1>3. serial \in BOOLEAN
  BY DEF TypeOK, FrameTypes
<1>4. /\ \A x \in Ids \ {w} : worker'[x] = worker[x]
      /\ worker'[w].st = after
      /\ worker'[w].show = worker[w].show /\ worker'[w].told = worker[w].told
  <2>1. after # "done"
    BY <1>1
  <2> HIDE DEF after
  <2> QED
    BY <1>1, <2>1, BecomeView
<1> HIDE DEF v, u
<1>5. ASSUME NEW s \in Seq(Steps), Sound(s, v)
      PROVE  Sound(s, u)
  <2>1. /\ u.serial = v.serial /\ u.begun = v.begun /\ u.want = v.want
        /\ u.show = v.show /\ u.effect = v.effect
    BY <1>1, <1>2
  <2>2. v.worker[w].st = "write" => u.worker[w].st \in {"write", "turn"}
    BY <1>2, <1>4
  <2>3. v.worker[w].st = "dark" => u.worker[w].st = "clear" /\ u.lamp = Shown(u.serial, Off)
    <3>1. SUFFICES ASSUME worker[w].st = "dark"
                   PROVE  u.worker[w].st = "clear" /\ u.lamp = Shown(u.serial, Off)
      BY <1>2
    <3>2. worker[w].out = <<OffPacket(serial)>>
      BY <1>2, <1>5, <3>1 DEF Sound, WorkerStates
    <3>3. Len(worker[w].out) = 1 /\ worker[w].out[1] = OffPacket(serial)
      BY <3>2
    <3>4. Lit(OffPacket(serial)) = Shown(serial, Off)
      <4>1. Switched(OffPacket(serial), lamp) = Shown(serial, Off)
        BY <1>3, LastPacketShows
      <4> QED
        BY <4>1 DEF Switched, Lit
    <3>5. after = "clear"
      BY <3>1, <3>3
    <3> QED
      BY <1>1, <1>2, <1>4, <3>3, <3>4, <3>5
  <2>4. /\ v.worker[w].st \in {"write", "dark"}
        /\ u.worker[w].show <=> v.worker[w].show
        /\ u.worker[w].told <=> v.worker[w].told
        /\ \A x \in Ids \ {w} : u.worker[x] = v.worker[x]
    BY <1>1, <1>2, <1>4
  <2>5. Lights(v)
    BY <1>2
  <2> QED
    BY ONLY <2>1, <2>2, <2>3, <2>4, <2>5, <1>5, w \in Ids, WorkerWrites
<1>6. \A s \in Seq(Steps) : Sound(s, View) => Sound(s, View')
  BY <1>5 DEF v, u
<1> QED
  BY <1>1, <1>6, NoThreadGoes

LEMMA ClearSlotLights ==
    ASSUME TypeOK, LightsSound, Quiet, NEW w \in Ids, ClearSlot(w)
    PROVE  LightsSound'
<1> DEFINE v == View
           u == View'
<1>1. /\ serial' = serial /\ begun' = begun /\ want' = want /\ lamp' = lamp
      /\ show' = (IF show = w THEN None ELSE show)
      /\ effect' = (IF effect = w THEN None ELSE effect)
      /\ todo' = todo /\ worker[w].st = "clear"
      /\ Become(w, "done", worker[w].at, <<>>)
  BY DEF ClearSlot, frame, story
<1>2. /\ v.serial = serial /\ v.begun = begun /\ v.show = show /\ v.effect = effect
      /\ v.worker = worker /\ v.lamp = lamp /\ v.want = want
      /\ u.serial = serial' /\ u.begun = begun' /\ u.show = show' /\ u.effect = effect'
      /\ u.worker = worker' /\ u.lamp = lamp' /\ u.want = want'
      /\ Lights(v)
  BY ViewIs, ViewWillBe, ViewLights
<1>3. worker'[w].st = "done" /\ \A x \in Ids \ {w} : worker'[x] = worker[x]
  BY <1>1, BecomeView
<1> HIDE DEF v, u
<1>4. ASSUME NEW s \in Seq(Steps), Sound(s, v)
      PROVE  Sound(s, u)
  <2>1. /\ u.serial = v.serial /\ u.begun = v.begun /\ u.want = v.want /\ u.lamp = v.lamp
        /\ u.show = (IF v.show = w THEN None ELSE v.show)
        /\ u.effect = (IF v.effect = w THEN None ELSE v.effect)
        /\ v.worker[w].st = "clear" /\ u.worker[w].st = "done"
        /\ \A x \in Ids \ {w} : u.worker[x] = v.worker[x]
        /\ Lights(v)
    BY <1>1, <1>2, <1>3
  <2> QED
    BY ONLY <2>1, <1>4, w \in Ids, WorkerEnds
<1>5. \A s \in Seq(Steps) : Sound(s, View) => Sound(s, View')
  BY <1>4 DEF v, u
<1> QED
  BY <1>1, <1>5, NoThreadGoes

LEMMA Joined ==
    ASSUME NEW a \in Seq(Steps), NEW b \in Seq(Steps)
    PROVE  a \o b \in Seq(Steps)
  BY ConcatProperties

\* A frame that has nothing to do with the lights asks nothing of them.
LEMMA NothingAsked ==
    ASSUME serial \in BOOLEAN, Number \in Ids, NEW f \in Frames, ~Has(HandleFrame(f), LightSteps)
    PROVE  Wanted(f) = want
<1>1. f.data \in Seq(0 .. 255)
  BY TcpAssumption
<1>2. ASSUME NEW b \in BOOLEAN, NEW r \in Seq(Steps)
      PROVE  Has(IfShow(b) \o r, LightSteps)
  <2>1. Has(IfShow(b) \o r, Stops)
    BY <1>2, IfPart
  <2> QED
    BY <2>1, LightStepsAre DEF Has
<1>3. \A r \in Seq(Steps) : Has(StopShow(TRUE) \o r, LightSteps)
  <2> SUFFICES ASSUME NEW r \in Seq(Steps) PROVE Has(StopShow(TRUE) \o r, LightSteps)
    OBVIOUS
  <2>1. View.serial = serial
    BY ViewIs
  <2>2. Has(StopShow(TRUE) \o r, Stops)
    BY <2>1, ShowPart
  <2> QED
    BY <2>2, LightStepsAre DEF Has
<1>4. CASE ~ParseFrame(f) \/ (f.cmd \in {21, 48} /\ f.data = <<>>)
  BY <1>4 DEF Wanted
<1>5. CASE ParseFrame(f) /\ f.cmd \notin {21, 48, 49, 50}
  BY <1>5 DEF Wanted
<1>6. CASE ParseFrame(f) /\ f.cmd = 21 /\ f.data # <<>>
  <2>1. HandleFrame(f) = HandleButton(f.data) /\ ~(Len(f.data) < 1)
    BY <1>1, <1>6, EmptySeq DEF HandleFrame
  <2> DEFINE rest == CASE f.data[1] \in {0, 7} -> MotionScene(Off) \o <<<<"stop", 0>>>>
                       [] f.data[1] \in 1 .. 6 -> MotionScene(DirectionScene(f.data[1])) \o Move
                       [] OTHER -> Fail
  <2>2. HandleFrame(f) = IfShow(TRUE) \o rest
    BY <2>1 DEF HandleButton
  <2>3. CASE f.data[1] \in {0, 7}
    <3>1. rest = MotionScene(Off) \o <<<<"stop", 0>>>>
      BY <2>3
    <3>2. MotionScene(Off) \in Seq(Steps)
      BY MotionSceneSteps DEF Off
    <3>3. <<<<"stop", 0>>>> \in Seq(Steps)
      BY LightFree
    <3> HIDE DEF rest
    <3>4. rest \in Seq(Steps)
      BY <3>1, <3>2, <3>3, Joined
    <3> QED
      BY <1>2, <2>2, <3>4
  <2>4. CASE f.data[1] \in 1 .. 6
    <3>1. rest = MotionScene(DirectionScene(f.data[1])) \o Move
      BY <2>4
    <3>2. DirectionScene(f.data[1]) \in 0 .. 3
      BY <2>4 DEF DirectionScene, On, Left, Right
    <3>3. MotionScene(DirectionScene(f.data[1])) \in Seq(Steps)
      BY <3>2, MotionSceneSteps
    <3>4. Move \in Seq(Steps)
      BY LightFree
    <3> HIDE DEF rest
    <3>5. rest \in Seq(Steps)
      BY <3>1, <3>3, <3>4, Joined
    <3> QED
      BY <1>2, <2>2, <3>5
  <2>5. CASE f.data[1] \notin {0, 7} /\ f.data[1] \notin 1 .. 6
    BY <1>6, <2>5 DEF Wanted
  <2> QED
    BY <2>3, <2>4, <2>5
<1>7. CASE ParseFrame(f) /\ f.cmd = 48 /\ f.data # <<>>
  <2>1. HandleFrame(f) = HandleLightEffect(f.data) /\ ~(Len(f.data) < 1)
    BY <1>1, <1>7, EmptySeq DEF HandleFrame
  <2>2. f.data[1] \in 0 .. 255
    BY <1>1, <1>7, FirstByte
  <2>3. CASE f.data[1] \notin 0 .. 6
    BY <1>7, <2>3 DEF Wanted
  <2>4. CASE f.data[1] \in 0 .. 6
    <3> DEFINE rest == CASE f.data[1] = 0 -> Scene(Off)
                         [] f.data[1] \in DOMAIN Patterns ->
                                <<<<"newEffect", <<Number, f.data[1]>>>>, <<"launch", Number>>>>
                         [] OTHER -> Fail
    <3>1. /\ ~serial => HandleFrame(f) = IfShow(FALSE) \o Scene(f.data[1])
          /\ serial => HandleFrame(f) = IfShow(FALSE) \o (StopEffect(FALSE) \o rest)
      <4>1. ~(f.data[1] > 6)
        BY <2>4
      <4> QED
        BY <2>1, <4>1 DEF HandleLightEffect
    <3>2. CASE ~serial
      <4>1. Scene(f.data[1]) \in Seq(Steps)
        BY <2>4, <3>2, SceneSteps
      <4> QED
        BY <1>2, <3>1, <3>2, <4>1
    <3>3. CASE serial
      <4>1. 0 \notin DOMAIN Patterns
        BY DEF Patterns
      <4>2. rest \in Seq(Steps)
        <5>1. CASE f.data[1] = 0
          <6>1. rest = Scene(Off)
            BY <4>1, <5>1
          <6>2. Scene(Off) \in Seq(Steps)
            BY SceneSteps DEF Off
          <6> HIDE DEF rest
          <6> QED
            BY <6>1, <6>2
        <5>2. CASE f.data[1] \in DOMAIN Patterns
          <6>1. rest = <<<<"newEffect", <<Number, f.data[1]>>>>, <<"launch", Number>>>>
            BY <4>1, <5>2
          <6>2. <<<<"newEffect", <<Number, f.data[1]>>>>, <<"launch", Number>>>> \in Seq(Steps)
            BY <5>2, SmallHandlers DEF Handler
          <6> HIDE DEF rest
          <6> QED
            BY <6>1, <6>2
        <5>3. CASE f.data[1] # 0 /\ f.data[1] \notin DOMAIN Patterns
          <6>1. rest = Fail
            BY <5>3
          <6>2. Fail \in Seq(Steps)
            BY LightFree
          <6> HIDE DEF rest
          <6> QED
            BY <6>1, <6>2
        <5> QED
          BY <5>1, <5>2, <5>3
      <4> HIDE DEF rest
      <4>3. StopEffect(FALSE) \in Seq(Steps)
        BY PartSteps
      <4>4. StopEffect(FALSE) \o rest \in Seq(Steps)
        BY <4>2, <4>3, Joined
      <4> QED
        BY <1>2, <3>1, <3>3, <4>4
    <3> QED
      BY <3>2, <3>3
  <2> QED
    BY <2>3, <2>4
<1>8. CASE ParseFrame(f) /\ f.cmd = 49
  <2> DEFINE q == <<<<"newShow", <<Number, 0>>>>, <<"launch", Number>>, <<"play", 3>>>>
             b == TRUE
  <2>1. HandleFrame(f) = (StopEffect(TRUE) \o StopShow(TRUE)) \o q
    <3>1. HandleFrame(f) = ShowStart
      BY <1>8 DEF HandleFrame
    <3> QED
      BY <3>1 DEF ShowStart
  <2>2. q \in Seq(Steps)
    BY SmallHandlers DEF Handler
  <2>3. StopEffect(TRUE) \in Seq(Steps)
    BY PartSteps
  <2>4. StopShow(TRUE) \in Seq(Steps)
    BY PartSteps
  <2> HIDE DEF q
  <2>5. StopShow(TRUE) \o q \in Seq(Steps) /\ Has(StopShow(TRUE) \o q, LightSteps)
    BY <1>3, <2>2, <2>4, Joined
  <2>6. HandleFrame(f) = StopEffect(b) \o (StopShow(TRUE) \o q) /\ b \in BOOLEAN
    BY <2>1, <2>2, <2>3, <2>4, Regroup
  <2> DEFINE r == StopShow(TRUE) \o q
  <2>7. r \in Seq(Steps) /\ Has(r, LightSteps) /\ HandleFrame(f) = StopEffect(b) \o r /\ b \in BOOLEAN
    BY <2>5, <2>6
  <2> HIDE DEF r, b
  <2>8. View.serial = serial
    BY ViewIs
  <2>9. Has(StopEffect(b) \o r, LightSteps)
    BY <2>7, <2>8, EffectPart
  <2> QED
    BY <2>7, <2>9
<1>9. CASE ParseFrame(f) /\ f.cmd = 50
  <2>1. HandleFrame(f) = StopShow(TRUE)
    BY <1>9 DEF HandleFrame
  <2>2. StopShow(TRUE) \in Seq(Steps)
    BY PartSteps
  <2>3. StopShow(TRUE) \o <<>> = StopShow(TRUE) /\ <<>> \in Seq(Steps)
    BY <2>2, ConcatEmptySeq
  <2> QED
    BY <1>3, <2>1, <2>3
<1> QED
  BY <1>4, <1>5, <1>6, <1>7, <1>8, <1>9

LEMMA HasJoined ==
    ASSUME NEW a \in Seq(Steps), NEW b \in Seq(Steps), NEW N, Has(a, N) \/ Has(b, N)
    PROVE  Has(a \o b, N)
<1> DEFINE q == a \o b
<1>1. /\ Len(q) = Len(a) + Len(b) /\ Len(a) \in Nat /\ Len(b) \in Nat
      /\ \A i \in 1 .. Len(a) + Len(b) : q[i] = IF i <= Len(a) THEN a[i] ELSE b[i - Len(a)]
  BY ConcatProperties, LenProperties
<1> HIDE DEF q
<1>2. ASSUME NEW i \in 1 .. Len(a), a[i][1] \in N
      PROVE  Has(q, N)
  <2>1. i \in 1 .. Len(q) /\ q[i] = a[i]
    BY <1>1
  <2> QED
    BY <1>2, <2>1 DEF Has
<1>3. ASSUME NEW i \in 1 .. Len(b), b[i][1] \in N
      PROVE  Has(q, N)
  <2>1. i + Len(a) \in 1 .. Len(q) /\ q[i + Len(a)] = b[i]
    BY <1>1
  <2> QED
    BY <1>3, <2>1 DEF Has
<1> QED
  BY <1>2, <1>3 DEF Has, q

LEMMA CloseHasLights ==
    ASSUME serial \in BOOLEAN
    PROVE  Has(Close, LightSteps)
<1> DEFINE first == <<<<"close", "monitor">>, <<"silence", 0>>>>
           last == <<<<"awaitStop", 0>>, <<"close", "serial">>, <<"cancel", 0>>,
                     <<"close", "publisher">>>>
           k == StopShow(TRUE)
           j == StopEffect(TRUE)
<1>1. Close = ((first \o k) \o j) \o last
  BY DEF Close
<1>2. first \in Seq(Steps)
  <2>1. <<"close", "monitor">> \in Steps /\ <<"silence", 0>> \in Steps
    BY DEF Steps, Parts
  <2> QED
    BY <2>1
<1>3. last \in Seq(Steps)
  <2>1. /\ <<"awaitStop", 0>> \in Steps /\ <<"close", "serial">> \in Steps
        /\ <<"cancel", 0>> \in Steps /\ <<"close", "publisher">> \in Steps
    BY DEF Steps, Parts
  <2> QED
    BY <2>1
<1>4. k \in Seq(Steps)
  BY PartSteps
<1>5. j \in Seq(Steps)
  BY PartSteps
<1>6. Has(k, LightSteps)
  <2>1. View.serial = serial
    BY ViewIs
  <2>2. <<>> \in Seq(Steps)
    OBVIOUS
  <2>3. Has(StopShow(TRUE) \o <<>>, Stops)
    BY <2>1, <2>2, ShowPart
  <2>4. StopShow(TRUE) \o <<>> = StopShow(TRUE)
    BY <1>4, ConcatEmptySeq
  <2> QED
    BY <2>3, <2>4, LightStepsAre DEF Has
<1> HIDE DEF first, last, k, j
<1>7. first \o k \in Seq(Steps) /\ Has(first \o k, LightSteps)
  BY <1>2, <1>4, <1>6, Joined, HasJoined
<1>8. (first \o k) \o j \in Seq(Steps) /\ Has((first \o k) \o j, LightSteps)
  BY <1>5, <1>7, Joined, HasJoined
<1> QED
  BY <1>1, <1>3, <1>8, HasJoined

\* A frame begins that leaves the lights as they are.
LEMMA BegunGrows ==
    ASSUME NEW r \in Seq(Steps), NEW v, NEW u, Sound(r, v), Lights(v), u.begun = v.begun + 1,
           u.serial = v.serial, u.show = v.show, u.effect = v.effect, u.worker = v.worker,
           u.lamp = v.lamp, u.want = v.want
    PROVE  Sound(r, u)
<1>1. WorkerSlots(r, v) /\ WorkerStates(v) /\ Order(r, v) /\ Purpose(r, v)
  BY DEF Sound
<1>2. v.begun \in Nat /\ u.begun \in Nat /\ v.begun <= u.begun
  BY DEF Lights
<1>3. WorkerSlots(r, u)
  BY <1>1 DEF WorkerSlots, Active
<1>4. WorkerStates(u)
  <2>1. \A w \in Ids : w > u.begun => w > v.begun
    BY <1>2, TcpAssumption DEF Ids
  <2> QED
    BY <1>1, <2>1 DEF WorkerStates
<1>5. AllAllowed(r, u)
  <2>1. AllAllowed(r, v)
    BY <1>1 DEF Order
  <2>2. \A w \in Ids : v.worker[w].st = "none" => u.worker[w].st = "none"
    OBVIOUS
  <2> QED
    BY <1>2, <2>1, <2>2, StillAllowed
<1>6. Order(r, u)
  BY <1>1, <1>5 DEF Order
<1>7. Purpose(r, u)
  BY <1>1 DEF Purpose, Draw
<1> QED
  BY <1>3, <1>4, <1>6, <1>7 DEF Sound

\* A thread that has nothing left begins the steps of a frame.
LEMMA EnterLights ==
    ASSUME TypeOK, LightsSound, Quiet, Quiet', NEW t \in Threads, todo[t] = <<>>,
           NEW steps \in Seq(Steps), Enter(t, steps), UNCHANGED <<serial, lights>>,
           ~Has(steps, LightSteps) => want' = want,
           Has(steps, LightSteps) /\ Starts(View, View') => Sound(steps, View')
    PROVE  LightsSound'
<1> DEFINE v == View
           u == View'
<1>1. todo \in [Threads -> Seq(Steps)] /\ begun \in 0 .. MaxFrames /\ MaxFrames \in Nat
  BY TcpAssumption DEF TypeOK, FrameTypes
<1>2. /\ todo' \in [Threads -> Seq(Steps)] /\ todo'[t] = steps
      /\ \A x \in Threads \ {t} : todo'[x] = todo[x]
  BY <1>1 DEF Enter
<1>3. begun' = begun + 1 /\ begun + 1 \in Ids
  BY <1>1 DEF Enter, Number, Ids
<1>4. /\ v.serial = serial /\ v.begun = begun /\ v.show = show /\ v.effect = effect
      /\ v.worker = worker /\ v.lamp = lamp /\ v.want = want
      /\ u.serial = serial' /\ u.begun = begun' /\ u.show = show' /\ u.effect = effect'
      /\ u.worker = worker' /\ u.lamp = lamp' /\ u.want = want'
      /\ Lights(v)
  BY ViewIs, ViewWillBe, ViewLights
<1>5. show' = show /\ effect' = effect /\ worker' = worker /\ lamp' = lamp /\ serial' = serial
  BY DEF lights
<1>6. \A x \in Threads \ {t} : AtLights(x)' <=> AtLights(x)
  BY <1>2 DEF AtLights, OfLights
<1>7. /\ AtLights(t)' <=> Has(steps, LightSteps)
      /\ ~AtLights(t)
  <2>1. AtLights(t)' <=> OfLights(steps)
    BY <1>2 DEF AtLights, OfLights
  <2>2. ~AtLights(t)
    BY DEF AtLights, OfLights
  <2> QED
    BY <2>1, <2>2, OfLightsHas
<1>8. CASE Has(steps, LightSteps)
  <2>1. Alone(t)
    <3>1. OfLights(steps)
      BY <1>8, OfLightsHas
    <3> QED
      BY <3>1 DEF Enter, Quiet, Alone
  <2>2. Alone(t)'
    BY <1>6, <2>1 DEF Alone
  <2>3. Sound(<<>>, v)
    BY <2>1 DEF LightsSound
  <2> HIDE DEF v, u
  <2>4. Starts(v, u)
    BY <1>3, <1>4, <1>5, <2>3 DEF Starts, Entered
  <2>5. Sound(steps, u)
    BY <1>8, <2>4 DEF v, u
  <2>6. Sound(todo'[t], View')
    BY <1>2, <2>5 DEF u
  <2> QED
    BY <1>2, <2>2, <2>6, OneAtLights
<1>9. CASE ~Has(steps, LightSteps)
  <2>1. PICK x \in Threads : Alone(x)
    BY DEF LightsSound
  <2>2. Alone(x)'
    BY <1>6, <1>7, <1>9, <2>1 DEF Alone
  <2>3. Sound(todo[x], v) /\ todo[x] \in Seq(Steps)
    BY <1>1, <2>1 DEF LightsSound
  <2> HIDE DEF v, u
  <2>4. todo'[x] \in Seq(Steps) /\ Sound(todo'[x], v)
    <3>1. CASE x # t
      BY <1>2, <2>3, <3>1
    <3>2. CASE x = t
      <4>1. Sound(<<>>, v) /\ <<>> \in Seq(Steps) /\ ~Has(<<>>, LightSteps)
        BY <2>3, <3>2 DEF Has
      <4>2. Sound(steps, v)
        BY <1>9, <4>1, FreeOfLights
      <4> QED
        BY <1>2, <3>2, <4>2
    <3> QED
      BY <3>1, <3>2
  <2>5. /\ u.begun = v.begun + 1 /\ u.serial = v.serial /\ u.show = v.show /\ u.effect = v.effect
        /\ u.worker = v.worker /\ u.lamp = v.lamp /\ u.want = v.want /\ Lights(v)
    BY <1>3, <1>4, <1>5, <1>9
  <2>6. Sound(todo'[x], u)
    BY ONLY <2>4, <2>5, BegunGrows
  <2>7. Sound(todo'[x], View')
    BY <2>6 DEF u
  <2> QED
    BY <1>2, <2>2, <2>7, OneAtLights
<1> QED
  BY <1>8, <1>9

LEMMA FrameEnters ==
    ASSUME IInv, LightsSound, Quiet, Quiet', NEW t \in Threads, todo[t] = <<>>,
           NEW f \in Frames, Enter(t, HandleFrame(f)), UNCHANGED <<serial, lights>>,
           want' = Wanted(f)
    PROVE  LightsSound'
<1>1. TypeOK /\ serial \in BOOLEAN /\ begun \in 0 .. MaxFrames /\ MaxFrames \in Nat
  BY TcpAssumption DEF IInv, TypeOK, FrameTypes
<1>2. Number \in Ids
  BY <1>1 DEF Enter, Number, Ids
<1>3. HandleFrame(f) \in Seq(Steps)
  BY <1>1, <1>2, FrameSteps DEF Handler
<1>4. ~Has(HandleFrame(f), LightSteps) => want' = want
  BY <1>1, <1>2, NothingAsked
<1>5. ASSUME Has(HandleFrame(f), LightSteps), Starts(View, View')
      PROVE  Sound(HandleFrame(f), View')
  <2>1. View.want = want /\ View'.want = Wanted(f)
    BY ViewIs, ViewWillBe
  <2>2. Meets(HandleFrame(f), View, View')
    BY <1>5, <2>1, FrameMeets
  <2> QED
    BY <1>5, <2>2 DEF Meets
<1> QED
  BY <1>1, <1>3, <1>4, <1>5, EnterLights

LEMMA OthersEnter ==
    ASSUME IInv, LightsSound, Quiet, Quiet', NEW t \in Threads, todo[t] = <<>>,
           UNCHANGED <<serial, lights>>,
           \/ Enter(t, Close) /\ want' = <<"scene", Off>>
           \/ Enter(t, FrontWarning) /\ want' = <<"scene", On>>
    PROVE  LightsSound'
<1>1. TypeOK /\ serial \in BOOLEAN /\ begun \in 0 .. MaxFrames /\ MaxFrames \in Nat
  BY TcpAssumption DEF IInv, TypeOK, FrameTypes
<1>2. Number \in Ids
  BY <1>1 DEF Enter, Number, Ids
<1>3. Close \in Seq(Steps) /\ FrontWarning \in Seq(Steps)
  BY <1>1, <1>2, OtherHandlers DEF Handler
<1>4. View'.want = want'
  BY ViewWillBe
<1>5. CASE Enter(t, Close) /\ want' = <<"scene", Off>>
  <2>1. Starts(View, View') => Sound(Close, View')
    BY <1>4, <1>5, CloseMeets
  <2>2. Has(Close, LightSteps)
    BY <1>1, CloseHasLights
  <2> QED
    BY <1>1, <1>3, <1>5, <2>1, <2>2, EnterLights
<1>6. CASE Enter(t, FrontWarning) /\ want' = <<"scene", On>>
  <2>1. Starts(View, View') => Sound(FrontWarning, View')
    BY <1>4, <1>6, WarningMeets
  <2>2. Has(FrontWarning, LightSteps)
    <3>1. FrontWarning = MotionScene(On) \o <<<<"play", 0>>>>
      BY DEF FrontWarning
    <3>2. <<<<"play", 0>>>> \in Seq(Steps) /\ ~Has(<<<<"play", 0>>>>, LightSteps)
      <4>1. 0 \in 0 .. 255
        OBVIOUS
      <4> QED
        BY <1>2, <4>1, LightFree
    <3>3. View.serial = serial /\ On \in 0 .. 3
      BY ViewIs DEF On
    <3>4. Has(FrontWarning, Stops)
      BY <1>1, <3>1, <3>2, <3>3, MotionPart
    <3> QED
      BY <3>4, LightStepsAre DEF Has
  <2> QED
    BY <1>1, <1>3, <1>6, <2>1, <2>2, EnterLights
<1> QED
  BY <1>5, <1>6

\* Once two threads were at the lights, or the port was closed, it stays so.
LEMMA QuietBefore ==
    ASSUME TypeOK, [Next]_vars, Quiet'
    PROVE  Quiet
<1> SUFFICES closed \subseteq closed' /\ (mixed => mixed') /\ (late => late')
  BY DEF Quiet
<1>1. ASSUME NEW c \in Conns, Receive(c)
      PROVE  closed \subseteq closed' /\ (mixed => mixed') /\ (late => late')
  <2>1. closed' = closed /\ late' = late
    BY <1>1 DEF Receive
  <2>2. mixed => mixed'
    BY <1>1 DEF Receive, Enter
  <2> QED
    BY <2>1, <2>2
<1>2. CASE Shutdown
  BY <1>2 DEF Shutdown, Enter
<1>3. CASE CloseStep
  BY <1>3 DEF CloseStep, story
<1>4. ASSUME NEW t \in Threads, Step(t)
      PROVE  closed \subseteq closed' /\ (mixed => mixed') /\ (late => late')
  <2>1. closed' = closed
    BY <1>4 DEF Step, CheckShow, TakeShow, TakeEffect, Join, Light, Register, Launch, CancelMotion,
                StartMotion, RequestMotionStop, Play, KillTrackers, StartTracker, Refuse, frame
  <2>2. mixed' = mixed
    BY <1>4 DEF Step, CheckShow, TakeShow, TakeEffect, Join, Light, Register, Launch, CancelMotion,
                StartMotion, RequestMotionStop, Play, KillTrackers, StartTracker, Refuse, story
  <2>3. late' = late \/ late' = TRUE
    BY <1>4 DEF Step, CheckShow, TakeShow, TakeEffect, Join, Light, Register, Launch, CancelMotion,
                StartMotion, RequestMotionStop, Play, KillTrackers, StartTracker, Refuse, story
  <2> QED
    BY <2>1, <2>2, <2>3
<1>5. ASSUME NEW w \in Ids, NextScene(w) \/ WritePacket(w) \/ ClearSlot(w)
      PROVE  closed \subseteq closed' /\ (mixed => mixed') /\ (late => late')
  BY <1>5 DEF NextScene, WritePacket, ClearSlot, frame, story
<1>6. CASE (\E m \in Ids : EndMotion(m)) \/ StopWorker
  BY <1>6 DEF EndMotion, StopWorker, frame, story
<1>7. CASE OnScan
  <2>1. closed' = closed /\ late' = late
    BY <1>7 DEF OnScan
  <2>2. PICK gap \in Gaps : ClearScan(gap) \/ BlockedScan(gap) \/ UnclearScan(gap)
    BY <1>7 DEF OnScan
  <2>3. mixed => mixed'
    BY <2>2 DEF ClearScan, BlockedScan, UnclearScan, Enter
  <2> QED
    BY <2>1, <2>3
<1>8. CASE UNCHANGED vars
  BY <1>8 DEF vars, frame, story
<1> QED
  BY <1>1, <1>2, <1>3, <1>4, <1>5, <1>6, <1>7, <1>8 DEF Next

LEMMA SameLights ==
    ASSUME TypeOK, LightsSound, Quiet,
           UNCHANGED <<serial, begun, todo, show, effect, worker, lamp, want>>
    PROVE  LightsSound'
<1>1. View' = View
  BY DEF View
<1> QED
  BY <1>1, NoThreadGoes

LEMMA CloseStepLights ==
    ASSUME TypeOK, LightsSound, Quiet, CloseStep
    PROVE  LightsSound'
<1>1. "main" \in Threads
  BY DEF Threads
<1>2. todo["main"] # <<>> /\ todo["main"][1][1] \in {"close", "silence", "awaitStop"}
  BY DEF CloseStep, At
<1>3. todo["main"][1][1] \notin LightSteps
  BY <1>2 DEF LightSteps
<1>4. serial' = serial /\ View' = View /\ Then("main", <<>>)
  BY DEF CloseStep, View, lights, story
<1> QED
  BY <1>1, <1>2, <1>3, <1>4, OtherSteps

LEMMA ScanLights ==
    ASSUME IInv, LightsSound, Quiet, Quiet', OnScan
    PROVE  LightsSound'
<1>1. TypeOK
  BY DEF IInv
<1>2. PICK gap \in Gaps : ClearScan(gap) \/ BlockedScan(gap) \/ UnclearScan(gap)
  BY DEF OnScan
<1>3. \/ UNCHANGED <<todo, begun, want>>
      \/ Enter("scan", FrontWarning) /\ want' = <<"scene", On>>
  BY <1>2 DEF ClearScan, BlockedScan, UnclearScan
<1>4. "scan" \in Threads /\ todo["scan"] = <<>> /\ UNCHANGED <<serial, lights>>
  BY DEF OnScan, Threads
<1>5. CASE UNCHANGED <<todo, begun, want>>
  BY <1>1, <1>4, <1>5, SameLights DEF lights
<1>6. CASE Enter("scan", FrontWarning) /\ want' = <<"scene", On>>
  BY <1>4, <1>6, OthersEnter
<1> QED
  BY <1>3, <1>5, <1>6

LEMMA LightsInductive == IInv /\ LightsSound /\ [Next]_vars => LightsSound'
<1> SUFFICES ASSUME IInv, LightsSound, [Next]_vars, Quiet' PROVE LightsSound'
  BY DEF LightsSound
<1>0. TypeOK /\ Quiet
  <2>1. TypeOK
    BY DEF IInv
  <2> QED
    BY <2>1, QuietBefore
<1>1. ASSUME NEW c \in Conns, Receive(c) PROVE LightsSound'
  <2>1. PICK f \in Frames : Enter(c, HandleFrame(f)) /\ want' = Wanted(f)
    BY <1>1 DEF Receive
  <2>2. c \in Threads /\ todo[c] = <<>> /\ UNCHANGED <<serial, lights>>
    BY <1>1 DEF Receive, Threads
  <2> QED
    BY <1>0, <2>1, <2>2, FrameEnters
<1>2. CASE Shutdown
  <2>1. "main" \in Threads /\ todo["main"] = <<>> /\ UNCHANGED <<serial, lights>>
    BY <1>2 DEF Shutdown, Threads
  <2>2. Enter("main", Close) /\ want' = <<"scene", Off>>
    BY <1>2 DEF Shutdown
  <2> QED
    BY <1>0, <2>1, <2>2, OthersEnter
<1>3. CASE CloseStep
  BY <1>0, <1>3, CloseStepLights
<1>4. ASSUME NEW t \in Threads, Step(t) PROVE LightsSound'
  BY <1>0, <1>4, StepLights
<1>5. ASSUME NEW w \in Ids, NextScene(w) \/ WritePacket(w) \/ ClearSlot(w) PROVE LightsSound'
  BY <1>0, <1>5, NextSceneLights, WritePacketLights, ClearSlotLights
<1>6. CASE (\E m \in Ids : EndMotion(m)) \/ StopWorker
  <2>1. UNCHANGED <<serial, begun, todo, show, effect, worker, lamp, want>>
    BY <1>6 DEF EndMotion, StopWorker, frame, lights, story
  <2> QED
    BY <1>0, <2>1, SameLights
<1>7. CASE OnScan
  BY <1>0, <1>7, ScanLights
<1>8. CASE UNCHANGED vars
  <2>1. UNCHANGED <<serial, begun, todo, show, effect, worker, lamp, want>>
    BY <1>8 DEF vars, frame, lights, story
  <2> QED
    BY <1>0, <2>1, SameLights
<1> QED
  BY <1>1, <1>2, <1>3, <1>4, <1>5, <1>6, <1>7, <1>8 DEF Next

LEMMA LightsInitially == Init => LightsSound
<1> SUFFICES ASSUME Init PROVE LightsSound
  OBVIOUS
<1> DEFINE v == View
<1>1. /\ \A t \in Threads : todo[t] = <<>>
      /\ show = None /\ effect = None /\ serial \in BOOLEAN
      /\ want = <<"scene", Off>> /\ lamp = IF serial THEN {} ELSE Off
  BY DEF Init
<1>2. \A w \in Ids : worker[w].st = "none"
  BY DEF Init, Over
<1>3. \A t \in Threads : Alone(t)
  BY <1>1 DEF Alone, AtLights, OfLights
<1>4. "scan" \in Threads
  BY DEF Threads
<1>5. /\ v.serial = serial /\ v.begun = begun /\ v.show = None /\ v.effect = None
      /\ v.worker = worker /\ v.lamp = lamp /\ v.want = want
  BY <1>1, ViewIs
<1>6. <<>> \in Seq(Steps) /\ ~Has(<<>>, LightSteps)
  BY DEF Has
<1> HIDE DEF v
<1>7. WorkerSlots(<<>>, v) /\ WorkerStates(v)
  BY <1>2, <1>5 DEF WorkerSlots, WorkerStates, Active
<1>8. Order(<<>>, v) /\ AllHarmless(<<>>)
  BY <1>6, WithoutLights DEF Order
<1>9. lamp = Shown(serial, Off)
  BY <1>1 DEF Shown, Off, On, Left, Right
<1>10. Purpose(<<>>, v)
  <2>1. v.want[1] = "scene" /\ v.want[2] = Off /\ Off \in 0 .. 3
    BY <1>1, <1>5 DEF Off
  <2>2. Draw(<<>>, v)
    BY <1>5, <1>8, <1>9, <2>1 DEF Draw
  <2> QED
    BY <1>5, <2>1, <2>2 DEF Purpose
<1>11. Sound(<<>>, v)
  BY <1>7, <1>8, <1>10 DEF Sound
<1> QED
  BY <1>1, <1>3, <1>4, <1>11 DEF LightsSound, v

LEMMA LightsAsAsked == IInv /\ LightsSound => LightsFollowTheLastFrame
<1> DEFINE shows == {w \in Ids : worker[w].show /\ Running(w)}
           effects == {w \in Ids : ~worker[w].show /\ Running(w)}
           v == View
<1> SUFFICES ASSUME IInv, LightsSound, Quiet, ~\E t \in Threads : AtLights(t)
             PROVE  /\ shows \subseteq {show} /\ effects \subseteq {effect}
                    /\ want[1] = "scene" => effects = {}
                    /\ want[1] = "effect" /\ serial => effects = {effect}
                    /\ want[1] = "scene" /\ shows = {} => lamp = LampsOf(want[2])
  BY DEF LightsFollowTheLastFrame, Quiet
<1>1. PICK t \in Threads : Sound(todo[t], View)
  BY DEF LightsSound
<1>2. TypeOK /\ todo[t] \in Seq(Steps)
  BY DEF IInv, TypeOK, FrameTypes
<1>3. ~Has(todo[t], LightSteps) /\ ~Has(<<>>, LightSteps) /\ <<>> \in Seq(Steps)
  <2>1. ~Has(todo[t], LightSteps)
    BY <1>2, OfLightsHas DEF AtLights
  <2> QED
    BY <2>1 DEF Has
<1>4. /\ v.serial = serial /\ v.show = show /\ v.effect = effect
      /\ v.worker = worker /\ v.lamp = lamp /\ v.want = want /\ Lights(v)
  BY <1>2, ViewIs, ViewLights
<1> HIDE DEF v
<1>5. Sound(<<>>, v)
  BY <1>1, <1>2, <1>3, FreeOfLights DEF v
<1>6. WorkerSlots(<<>>, v) /\ Purpose(<<>>, v) /\ \A N : ~Has(<<>>, N)
  BY <1>5 DEF Sound, Has
<1>7. \A w \in Ids : /\ Active(w, v) => w = IF worker[w].show THEN show ELSE effect
                     /\ worker[w].st # "new"
                     /\ Running(w) <=> Active(w, v)
  <2>1. \A w \in Ids : w # None
    BY DEF Ids, None
  <2>2. \A w \in Ids : worker[w].st # "new"
    BY <1>4, <1>6 DEF WorkerSlots
  <2>3. \A w \in Ids : Active(w, v) => w = IF worker[w].show THEN show ELSE effect
    BY <1>4, <1>6 DEF WorkerSlots
  <2> QED
    BY <1>4, <2>1, <2>2, <2>3 DEF Active, Running
<1>8. shows \subseteq {show} /\ effects \subseteq {effect}
  BY <1>7
<1>9. show \in 0 .. MaxFrames /\ effect \in 0 .. MaxFrames
  BY <1>2 DEF TypeOK, LightTypes
<1>10. ASSUME want[1] = "scene" PROVE effects = {}
  <2>1. effect = None
    BY <1>4, <1>6, <1>10 DEF Purpose
  <2> QED
    BY <1>8, <2>1 DEF Ids, None
<1>11. ASSUME want[1] = "effect", serial PROVE effects = {effect}
  <2>1. effect # None
    BY <1>4, <1>6, <1>11 DEF Purpose
  <2>2. effect \in Ids
    BY <1>4, <2>1, SlotNumbers
  <2>3. ~worker[effect].show /\ Active(effect, v)
    BY <1>4, <1>6, <2>1 DEF WorkerSlots
  <2> QED
    BY <1>7, <1>8, <2>2, <2>3
<1>12. ASSUME want[1] = "scene", shows = {} PROVE lamp = LampsOf(want[2])
  <2>1. show = None
    <3>1. SUFFICES ASSUME show # None PROVE FALSE
      OBVIOUS
    <3>2. show \in Ids
      BY <1>4, <3>1, SlotNumbers
    <3>3. worker[show].show /\ Active(show, v)
      BY <1>4, <1>6, <3>1 DEF WorkerSlots
    <3> QED
      BY <1>7, <1>12, <3>2, <3>3
  <2>2. want[2] \in 0 .. 3 /\ Draw(<<>>, v)
    BY <1>4, <1>6, <1>12 DEF Purpose
  <2>3. ~Draws(<<>>, OffStep(v.serial), LastStep(v.serial, v.want[2]), Split(v.serial, v.want[2]),
               v.lamp = {})
    BY <1>3, WithoutLights, LightNames
  <2>4. lamp = Shown(serial, want[2])
    BY <1>4, <2>1, <2>2, <2>3 DEF Draw
  <2> QED
    BY <2>2, <2>4 DEF Shown, LampsOf
<1> QED
  BY <1>8, <1>10, <1>11, <1>12

\* Whatever frames, warnings and workers come between: as long as the port is
\* open, no two threads were at the lights at once and no wait for a worker ran
\* out of time, the lights do between frames what the last frame about them
\* asked for (light_show.py, serial_hardware.py, frame_handler.py).
THEOREM LightsFollow == Spec => []LightsFollowTheLastFrame
<1>1. Init => IInv /\ LightsSound
  BY Initially, LightsInitially
<1>2. (IInv /\ LightsSound) /\ [Next]_vars => (IInv /\ LightsSound)'
  BY Inductive, LightsInductive
<1>3. IInv /\ LightsSound => LightsFollowTheLastFrame
  BY LightsAsAsked
<1> QED
  BY <1>1, <1>2, <1>3, PTL DEF Spec
===============================================================================
