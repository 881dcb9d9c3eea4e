----------------------------- MODULE FleetProofs -----------------------------
(***************************************************************************)
(* Proofs about Fleet, for any robots, requests and bounds.                *)
(***************************************************************************)
EXTENDS Fleet, SequenceTheorems, TLAPS

\* What is under way on a channel.
Elements(ch) == {ch[i] : i \in 1 .. Len(ch)}

\* Sending a message adds it to what is under way.
LEMMA SendAdds ==
    ASSUME NEW S, NEW ch \in Seq(S), NEW m \in S
    PROVE  /\ Append(ch, m) \in Seq(S)
           /\ Elements(Append(ch, m)) = Elements(ch) \cup {m}
<1>1. /\ Append(ch, m) \in Seq(S)
      /\ Len(Append(ch, m)) = Len(ch) + 1
      /\ \A i \in 1 .. Len(ch) : Append(ch, m)[i] = ch[i]
      /\ Append(ch, m)[Len(ch) + 1] = m
  BY AppendProperties
<1>2. Len(ch) \in Nat
  BY LenProperties
<1> QED
  BY <1>1, <1>2 DEF Elements

\* Receiving takes the head away and adds nothing.
LEMMA ReceiveTakes ==
    ASSUME NEW S, NEW ch \in Seq(S), ch # <<>>
    PROVE  /\ Tail(ch) \in Seq(S)
           /\ Head(ch) \in S
           /\ Head(ch) \in Elements(ch)
           /\ Elements(Tail(ch)) \subseteq Elements(ch)
<1>1. /\ Head(ch) \in S
      /\ Tail(ch) \in Seq(S)
      /\ Len(Tail(ch)) = Len(ch) - 1
      /\ \A i \in 1 .. Len(Tail(ch)) : Tail(ch)[i] = ch[i + 1]
  BY HeadTailProperties
<1>2. Len(ch) \in Nat \ {0} /\ Head(ch) = ch[1]
  BY EmptySeq
<1> QED
  BY <1>1, <1>2 DEF Elements

\* Repeating a channel, or sending several messages, adds only what is named.
LEMMA ConcatAdds ==
    ASSUME NEW S, NEW s \in Seq(S), NEW t \in Seq(S)
    PROVE  /\ s \o t \in Seq(S)
           /\ Elements(s \o t) = Elements(s) \cup Elements(t)
<1>1. /\ s \o t \in Seq(S)
      /\ Len(s \o t) = Len(s) + Len(t)
      /\ \A i \in 1 .. Len(s) + Len(t) :
            (s \o t)[i] = IF i <= Len(s) THEN s[i] ELSE t[i - Len(s)]
  BY ConcatProperties
<1>2. Len(s) \in Nat /\ Len(t) \in Nat
  BY LenProperties
<1>3. Elements(s \o t) \subseteq Elements(s) \cup Elements(t)
  BY <1>1, <1>2 DEF Elements
<1>4. ASSUME NEW i \in 1 .. Len(s) PROVE s[i] \in Elements(s \o t)
  BY <1>1, <1>2, i \in 1 .. Len(s \o t), (s \o t)[i] = s[i] DEF Elements
<1>5. ASSUME NEW i \in 1 .. Len(t) PROVE t[i] \in Elements(s \o t)
  <2>1. Len(s) + i \in 1 .. Len(s) + Len(t) /\ ~(Len(s) + i <= Len(s))
        /\ (Len(s) + i) - Len(s) = i
    BY <1>2
  <2>2. (s \o t)[Len(s) + i] = t[i]
    BY <1>1, <2>1
  <2> QED
    BY <1>1, <2>1, <2>2 DEF Elements
<1> QED
  BY <1>1, <1>3, <1>4, <1>5 DEF Elements

-------------------------------------------------------------------------------
(* The inductive invariant.                                                *)

\* A handler at work has a request that was accepted, and a slot in it.
HandlersHold ==
    \A h \in Handlers :
        pc[h] # "idle" => /\ job[h] \in accepted
                          /\ slot[h] \in 1 .. Len(Members[job[h]])
                          /\ pc[h] = "register" => job[h] \in Formations

\* No two handlers work on the same request.
OneHandlerPerRequest ==
    \A h, k \in Handlers :
        pc[h] # "idle" /\ pc[k] # "idle" /\ job[h] = job[k] => h = k

\* The commands of requests nobody accepted, and those a handler has not
\* come to yet, do not exist.
NotYetIssued ==
    /\ \A q \in Requests \ accepted, r \in Robots : shown[<<q, r>>] = "unissued"
    /\ \A h \in Handlers : pc[h] # "idle" =>
         \A i \in 1 .. Len(Members[job[h]]) :
             i > slot[h] \/ (i = slot[h] /\ pc[h] = "create")
                => shown[<<job[h], Members[job[h]][i]>>] = "unissued"

\* A command its handler has not marked yet is pending or already answered:
\* only a published command can time out.
BeingIssued ==
    \A h \in Handlers :
        pc[h] \in {"publish", "mark_sent", "mark_refused"}
            => shown[Current(h)] \in {"pending", "acked", "failed"}

\* What is under way was issued, and answers tell of executions.
UnderWayOf(r) ==
    /\ \A c \in Elements(down[r]) : shown[c] # "unissued"
    /\ busy[r] # None => shown[busy[r]] # "unissued"
    /\ \A m \in Elements(up[r]) : m.kind = "ack" =>
         shown[m.command] # "unissued" /\ m.result \in performed[m.command]

UnderWay == \A r \in Robots : UnderWayOf(r)

IInv == /\ TypeOK /\ HandlersHold /\ OneHandlerPerRequest /\ NotYetIssued
        /\ BeingIssued /\ UnderWay /\ SuccessIsShown /\ AckedWasPerformed

\* What a handler at work has in hand.
Working(h) ==
    /\ job[h] \in accepted /\ job[h] \in Requests
    /\ Len(Members[job[h]]) \in Nat
    /\ slot[h] \in 1 .. Len(Members[job[h]])
    /\ \A i \in 1 .. Len(Members[job[h]]) :
          /\ <<job[h], Members[job[h]][i]>> \in Commands
          /\ <<job[h], Members[job[h]][i]>> = Current(h) => i = slot[h]
    /\ Current(h) \in Commands
    /\ Issuer(Current(h)) = job[h]
    /\ Target(Current(h)) \in Robots

LEMMA AtWork ==
    ASSUME IInv, NEW h \in Handlers, pc[h] # "idle"
    PROVE  Working(h)
<1>1. job[h] \in accepted /\ job[h] \in Requests /\ slot[h] \in 1 .. Len(Members[job[h]])
  BY DEF IInv, TypeOK, HandlersType, HandlersHold
<1>2. /\ Members[job[h]] \in Seq(Robots)
      /\ Len(Members[job[h]]) \in Nat
      /\ \A i \in 1 .. Len(Members[job[h]]) : Members[job[h]][i] \in Robots
  BY <1>1, FleetAssumption
<1> QED
  BY <1>1, <1>2, FleetAssumption DEF Working, Current, Commands, Issuer, Target

\* What the channels of a robot may hold.
Typed(r) ==
    /\ Elements(down[r]) \subseteq Commands
    /\ busy[r] # None => busy[r] \in Commands
    /\ \A m \in Elements(up[r]) : m.kind = "ack" => m.command \in Commands

LEMMA TypedChannels ==
    ASSUME IInv, NEW r \in Robots
    PROVE  Typed(r)
<1>1. /\ \A i \in 1 .. Len(down[r]) : down[r][i] \in Commands
      /\ \A i \in 1 .. Len(up[r]) : up[r][i] \in Messages
      /\ busy[r] \in Commands \cup {None}
  BY DEF IInv, TypeOK, ChannelsType, AgentsType
<1>2. \A m \in Messages : m.kind = "ack" => m.command \in Commands
  BY DEF Messages, AckMessages, ReportMessages
<1> QED
  BY <1>1, <1>2 DEF Typed, Elements

\* What a step leaves alone keeps what is said about it.
LEMMA Undisturbed ==
    ASSUME IInv
    PROVE  /\ UNCHANGED <<registry, handlers>> =>
                /\ RegistryType' /\ HandlersType' /\ HandlersHold' /\ OneHandlerPerRequest'
                /\ NotYetIssued' /\ BeingIssued' /\ SuccessIsShown'
           /\ UNCHANGED <<registry, history>> => HistoryType' /\ AckedWasPerformed'
           /\ UNCHANGED channels => ChannelsType'
           /\ UNCHANGED agents => AgentsType'
           /\ UNCHANGED <<registry, channels, busy, history>> => UnderWay'
<1>1. ASSUME UNCHANGED <<registry, handlers>>
      PROVE  /\ RegistryType' /\ HandlersType' /\ HandlersHold' /\ OneHandlerPerRequest'
             /\ NotYetIssued' /\ BeingIssued' /\ SuccessIsShown'
  <2>1. RegistryType' /\ SuccessIsShown'
    BY <1>1 DEF IInv, TypeOK, RegistryType, SuccessIsShown, registry, handlers
  <2>2. HandlersType' /\ HandlersHold' /\ OneHandlerPerRequest'
    BY <1>1 DEF IInv, TypeOK, HandlersType, HandlersHold, OneHandlerPerRequest, handlers
  <2>3. NotYetIssued'
    BY <1>1 DEF IInv, NotYetIssued, registry, handlers
  <2>4. BeingIssued'
    BY <1>1 DEF IInv, BeingIssued, Current, registry, handlers
  <2> QED
    BY <2>1, <2>2, <2>3, <2>4
<1>2. UNCHANGED <<registry, history>> => HistoryType' /\ AckedWasPerformed'
  BY DEF IInv, TypeOK, HistoryType, AckedWasPerformed, registry, history
<1>3. UNCHANGED channels => ChannelsType'
  BY DEF IInv, TypeOK, ChannelsType, channels
<1>4. UNCHANGED agents => AgentsType'
  BY DEF IInv, TypeOK, AgentsType, agents
<1>5. UNCHANGED <<registry, channels, busy, history>> => UnderWay'
  BY DEF IInv, UnderWay, UnderWayOf, registry, channels, history
<1> QED
  BY <1>1, <1>2, <1>3, <1>4, <1>5

LEMMA Step == IInv /\ [Next]_vars => IInv'
<1> SUFFICES ASSUME IInv, [Next]_vars
             PROVE  IInv'
  OBVIOUS
<1>1. ASSUME NEW h \in Handlers, NEW q \in Requests, Accept(h, q)
      PROVE  IInv'
  <2>1. /\ RegistryType' /\ ChannelsType' /\ AgentsType' /\ HistoryType' /\ UnderWay'
        /\ SuccessIsShown' /\ AckedWasPerformed'
    BY <1>1 DEF IInv, TypeOK, RegistryType, ChannelsType, AgentsType, HistoryType,
       UnderWay, SuccessIsShown, AckedWasPerformed, UnderWayOf, Current, Accept, Goto,
       registry, handlers, channels, agents, history
  <2>2. HandlersType'
    BY <1>1, FleetAssumption DEF IInv, TypeOK, HandlersType, HandlersHold, HandlerPc,
       Accept, Goto, registry, handlers, channels, agents, history
  <2>3. HandlersHold'
    BY <1>1, FleetAssumption DEF IInv, TypeOK, HandlersType, HandlersHold, Accept, Goto,
       registry, handlers, channels, agents, history
  <2>4. OneHandlerPerRequest'
    BY <1>1, FleetAssumption DEF IInv, TypeOK, HandlersType, HandlersHold,
       OneHandlerPerRequest, Accept, Goto, registry, handlers, channels, agents, history
  <2>5. NotYetIssued'
    BY <1>1, FleetAssumption DEF IInv, TypeOK, RegistryType, HandlersType, HandlersHold,
       OneHandlerPerRequest, NotYetIssued, Accept, Goto, registry, handlers, channels,
       agents, history
  <2>6. BeingIssued'
    BY <1>1, FleetAssumption DEF IInv, TypeOK, RegistryType, HandlersType, HandlersHold,
       OneHandlerPerRequest, BeingIssued, Current, Accept, Goto, registry, handlers,
       channels, agents, history
  <2> QED
    BY <2>1, <2>2, <2>3, <2>4, <2>5, <2>6 DEF IInv, TypeOK
<1>2. ASSUME NEW h \in Handlers, CreateCommand(h)
      PROVE  IInv'
  <2>1. pc[h] # "idle" /\ Working(h)
    BY <1>2, AtWork DEF CreateCommand
  <2>2. /\ shown[Current(h)] = "unissued"
      /\ \A c \in Commands : shown'[c] = IF c = Current(h) THEN "pending" ELSE shown[c]
    BY <1>2, <2>1 DEF IInv, TypeOK, RegistryType, NotYetIssued, Working, Current,
       CreateCommand
  <2>3. ChannelsType' /\ AgentsType' /\ HistoryType'
    BY <1>2 DEF IInv, TypeOK, ChannelsType, AgentsType, HistoryType, Current,
       CreateCommand, Goto, registry, handlers, channels, agents, history
  <2>4. RegistryType'
    BY <1>2, <2>1, <2>2 DEF IInv, TypeOK, RegistryType, ChannelsType, HandlersHold, View,
       Statuses, FormationOrNone, Working, CreateCommand, Goto, registry, handlers,
       channels, agents, history
  <2>5. HandlersType'
    BY <1>2, <2>1, <2>2, FleetAssumption DEF IInv, TypeOK, HandlersType, HandlersHold,
       HandlerPc, Working, CreateCommand, Goto, registry, handlers, channels, agents,
       history
  <2>6. HandlersHold'
    BY <1>2, <2>1, <2>2, FleetAssumption DEF IInv, HandlersHold, Working, CreateCommand,
       Goto, registry, handlers, channels, agents, history
  <2>7. OneHandlerPerRequest'
    BY <1>2, <2>1, <2>2, FleetAssumption DEF IInv, HandlersHold, OneHandlerPerRequest,
       Working, CreateCommand, Goto, registry, handlers, channels, agents, history
  <2>8. NotYetIssued'
    <3>1. ASSUME NEW q \in Requests \ accepted', NEW r \in Robots
          PROVE  shown'[<<q, r>>] = "unissued"
      <4>1. accepted' = accepted /\ <<q, r>> \in Commands /\ <<q, r>> # Current(h)
        BY <1>2, <2>1, <2>2 DEF CreateCommand, Working, Commands, Current
      <4> QED
        BY <4>1, <1>2, <2>1, <2>2 DEF IInv, NotYetIssued
    <3>2. ASSUME NEW k \in Handlers, pc'[k] # "idle", NEW i \in 1 .. Len(Members[job'[k]]),
                 i > slot'[k] \/ (i = slot'[k] /\ pc'[k] = "create")
          PROVE  shown'[<<job'[k], Members[job'[k]][i]>>] = "unissued"
      <4>1. job' = job /\ slot' = slot /\ pc'[h] = "publish" /\ (k # h => pc'[k] = pc[k])
        BY <1>2, <2>1, <2>2 DEF IInv, TypeOK, HandlersType, CreateCommand, Goto
      <4>2. pc[k] # "idle" /\ (i > slot[k] \/ (i = slot[k] /\ pc[k] = "create"))
        BY <2>1, <4>1, <3>2
      <4>3. <<job[k], Members[job[k]][i]>> \in Commands
        BY <4>1, <4>2, <3>2, AtWork DEF Working
      <4>4. shown[<<job[k], Members[job[k]][i]>>] = "unissued"
        BY <4>1, <4>2, <3>2 DEF IInv, NotYetIssued
      <4>5. <<job[k], Members[job[k]][i]>> # Current(h)
        <5>1. CASE k = h
          BY <5>1, <4>1, <3>2, <2>1 DEF Working
        <5>2. CASE k # h
          BY <5>2, <4>1, <4>2, <2>1 DEF IInv, OneHandlerPerRequest, Current
        <5> QED
          BY <5>1, <5>2
      <4> QED
        BY <4>1, <4>3, <4>4, <4>5, <2>2
    <3> QED
      BY <3>1, <3>2 DEF NotYetIssued
  <2>9. BeingIssued'
    BY <1>2, <2>1, <2>2, FleetAssumption DEF IInv, TypeOK, RegistryType, HandlersType,
       HandlersHold, OneHandlerPerRequest, BeingIssued, Current, Working, CreateCommand,
       Goto, registry, handlers, channels, agents, history
  <2>10. UnderWay'
    BY <1>2, <2>1, <2>2 DEF IInv, ChannelsType, AgentsType, HistoryType, UnderWay,
       UnderWayOf, Working, CreateCommand, Goto, registry, handlers, channels, agents,
       history
  <2>11. SuccessIsShown'
    BY <1>2, <2>1, <2>2 DEF IInv, HandlersType, SuccessIsShown, Working, CreateCommand,
       Goto, registry, handlers, channels, agents, history
  <2>12. AckedWasPerformed'
    BY <1>2, <2>1, <2>2 DEF IInv, HistoryType, ChannelsType, AckedWasPerformed, UnderWay,
       UnderWayOf, Working, CreateCommand, Goto, registry, handlers, channels, agents,
       history
  <2> QED
    BY <2>3, <2>4, <2>5, <2>6, <2>7, <2>8, <2>9, <2>10, <2>11, <2>12 DEF IInv, TypeOK
<1>3. ASSUME NEW h \in Handlers, NEW taken \in BOOLEAN, NEW sent \in BOOLEAN,
             PublishJson(h, taken, sent)
      PROVE  IInv'
  <2>1. pc[h] # "idle" /\ Working(h)
    BY <1>3, AtWork DEF PublishJson
  <2>2. /\ Append(down[Target(Current(h))], Current(h)) \in Seq(Commands)
      /\ Elements(Append(down[Target(Current(h))], Current(h)))
            = Elements(down[Target(Current(h))]) \cup {Current(h)}
    <3>1. down[Target(Current(h))] \in Seq(Commands) /\ Current(h) \in Commands
      BY <2>1 DEF IInv, TypeOK, ChannelsType, Working
    <3> QED
      BY <3>1, SendAdds
  <2>3. RegistryType' /\ AgentsType' /\ HistoryType' /\ SuccessIsShown' /\ AckedWasPerformed'
    BY <1>3 DEF IInv, TypeOK, RegistryType, AgentsType, HistoryType, SuccessIsShown,
       AckedWasPerformed, Current, PublishJson, Goto, Target, registry, handlers,
       channels, agents, history
  <2>4. HandlersType'
    BY <1>3, <2>1, <2>2, FleetAssumption DEF IInv, TypeOK, HandlersType, HandlersHold,
       HandlerPc, Working, PublishJson, Goto, Target, registry, handlers, channels,
       agents, history
  <2>5. ChannelsType'
    BY <1>3, <2>1, <2>2 DEF IInv, TypeOK, ChannelsType, AgentsType, FaultKinds, Working,
       PublishJson, Goto, Target, registry, handlers, channels, agents, history
  <2>6. HandlersHold'
    BY <1>3, <2>1, <2>2, FleetAssumption DEF IInv, HandlersHold, Working, PublishJson,
       Goto, Target, registry, handlers, channels, agents, history
  <2>7. OneHandlerPerRequest'
    BY <1>3, <2>1, <2>2, FleetAssumption DEF IInv, HandlersHold, OneHandlerPerRequest,
       Working, PublishJson, Goto, Target, registry, handlers, channels, agents, history
  <2>8. NotYetIssued'
    BY <1>3, <2>1, <2>2, FleetAssumption DEF IInv, HandlersType, HandlersHold,
       OneHandlerPerRequest, NotYetIssued, Working, PublishJson, Goto, Target, registry,
       handlers, channels, agents, history
  <2>9. BeingIssued'
    BY <1>3, <2>1, <2>2, FleetAssumption DEF IInv, TypeOK, RegistryType, HandlersType,
       HandlersHold, OneHandlerPerRequest, BeingIssued, Current, Working, PublishJson,
       Goto, Target, registry, handlers, channels, agents, history
  <2>10. UnderWay'
    <3> SUFFICES ASSUME NEW s \in Robots
                 PROVE  UnderWayOf(s)'
      BY DEF UnderWay
    <3>1. UnderWayOf(s) /\ Typed(s)
      BY TypedChannels DEF IInv, UnderWay

    <3>2. shown' = shown /\ up' = up /\ busy' = busy /\ performed' = performed
      BY <1>3 DEF PublishJson, registry, handlers, channels, agents, history
    <3>3. Elements(down'[s]) \subseteq Elements(down[s]) \cup {Current(h)}
      <4>1. CASE sent /\ s = Target(Current(h))
        BY <1>3, <2>2, <4>1 DEF PublishJson
      <4>2. CASE ~(sent /\ s = Target(Current(h)))
        BY <1>3, <4>2 DEF PublishJson
      <4> QED
        BY <4>1, <4>2
    <3>4. shown[Current(h)] # "unissued"
      BY <1>3 DEF IInv, BeingIssued, PublishJson
    <3> QED
      BY <3>1, <3>2, <3>3, <3>4 DEF UnderWayOf
  <2> QED
    BY <2>3, <2>4, <2>5, <2>6, <2>7, <2>8, <2>9, <2>10 DEF IInv, TypeOK
<1>4. ASSUME NEW h \in Handlers, MarkPublished(h)
      PROVE  IInv'
  <2>1. pc[h] # "idle" /\ Working(h)
    BY <1>4, AtWork DEF MarkPublished
  <2>2. /\ slot \in [Handlers -> Nat] /\ pc \in [Handlers -> HandlerPc]
      /\ job' = job /\ accepted' = accepted
    BY <1>4 DEF IInv, TypeOK, HandlersType, MarkPublished
  <2>3. \/ /\ slot'[h] = slot[h] + 1
         /\ slot'[h] \in 1 .. Len(Members[job[h]])
         /\ pc'[h] = "create"
      \/ /\ slot'[h] = slot[h]
         /\ pc'[h] \in {"idle", "register"}
         /\ pc'[h] = "register" => job[h] \in Formations
    BY <1>4, <2>2, <2>1 DEF MarkPublished, NextCommand, Goto, Working
  <2>4. \A k \in Handlers \ {h} : slot'[k] = slot[k] /\ pc'[k] = pc[k]
    BY <1>4, <2>2 DEF MarkPublished, NextCommand, Goto
  <2>5. slot' \in [Handlers -> Nat] /\ pc' \in [Handlers -> HandlerPc]
    BY <1>4, <2>2, <2>1 DEF MarkPublished, NextCommand, Goto, Working, HandlerPc
  <2>6. \A d \in Commands : shown'[d] = "unissued" <=> shown[d] = "unissued"
    BY <1>4, <2>1 DEF IInv, BeingIssued, MarkPublished
  <2>7. ChannelsType' /\ AgentsType' /\ HistoryType'
    BY <1>4 DEF IInv, TypeOK, ChannelsType, AgentsType, HistoryType, Current,
       MarkPublished, NextCommand, Goto, registry, handlers, channels, agents, history
  <2>8. RegistryType'
    BY <1>4, <2>1, <2>2, <2>3, <2>4, <2>5, <2>6 DEF IInv, TypeOK, RegistryType,
       ChannelsType, HandlersHold, View, Statuses, FormationOrNone, Working,
       MarkPublished, NextCommand, Goto, registry, handlers, channels, agents, history
  <2>9. HandlersType'
    BY <1>4, <2>1, <2>2, <2>5 DEF IInv, TypeOK, HandlersType, Working, MarkPublished
  <2>10. HandlersHold'
    BY <1>4, <2>1, <2>2, <2>3, <2>4, <2>5, <2>6, FleetAssumption DEF IInv, HandlersHold,
       Working, MarkPublished, NextCommand, Goto, registry, handlers, channels, agents,
       history
  <2>11. OneHandlerPerRequest'
    BY <1>4, <2>1, <2>2, <2>3, <2>4, <2>5, <2>6, FleetAssumption DEF IInv, TypeOK,
       HandlersType, HandlersHold, OneHandlerPerRequest, Working, MarkPublished,
       NextCommand, Goto, registry, handlers, channels, agents, history
  <2>12. NotYetIssued'
    <3>1. ASSUME NEW q \in Requests \ accepted', NEW r \in Robots
          PROVE  shown'[<<q, r>>] = "unissued"
      BY <1>4, <2>1, <2>2, <2>3, <2>4, <2>5, <2>6 DEF IInv, NotYetIssued, Commands
    <3>2. ASSUME NEW k \in Handlers, pc'[k] # "idle", NEW i \in 1 .. Len(Members[job'[k]]),
                 i > slot'[k] \/ (i = slot'[k] /\ pc'[k] = "create")
          PROVE  shown'[<<job'[k], Members[job'[k]][i]>>] = "unissued"
      <4>1. /\ pc[k] # "idle" /\ job'[k] = job[k]
            /\ i > slot[k] \/ (i = slot[k] /\ pc[k] = "create")
        BY <2>1, <2>2, <2>3, <2>4, <2>5, <2>6, <3>2
      <4>2. <<job[k], Members[job[k]][i]>> \in Commands
        BY <4>1, <3>2, AtWork DEF Working
      <4>3. shown[<<job[k], Members[job[k]][i]>>] = "unissued"
        BY <4>1, <3>2 DEF IInv, NotYetIssued
      <4> QED
        BY <4>2, <4>3, <1>4, <2>1, <2>2, <2>3, <2>4, <2>5, <2>6
    <3> QED
      BY <3>1, <3>2 DEF NotYetIssued
  <2>13. BeingIssued'
    <3> SUFFICES ASSUME NEW k \in Handlers, pc'[k] \in {"publish", "mark_sent", "mark_refused"}
                 PROVE  shown'[Current(k)'] \in {"pending", "acked", "failed"}
      BY DEF BeingIssued
    <3>1. k # h /\ pc[k] = pc'[k] /\ Current(k)' = Current(k)
      BY <2>2, <2>3, <2>4 DEF Current
    <3>2. Current(k) \in Commands /\ shown[Current(k)] \in {"pending", "acked", "failed"}
      BY <3>1, AtWork DEF Working, IInv, BeingIssued
    <3>3. Current(k) # Current(h)
      BY <2>1, <3>1, <1>4 DEF IInv, OneHandlerPerRequest, Current
    <3> QED
      BY <1>4, <3>1, <3>2, <3>3 DEF MarkPublished
  <2>14. UnderWay'
    BY <1>4, <2>1, <2>2, <2>3, <2>4, <2>5, <2>6 DEF IInv, RegistryType, ChannelsType,
       AgentsType, HistoryType, UnderWay, UnderWayOf, Working, MarkPublished, NextCommand,
       Goto, registry, handlers, channels, agents, history
  <2>15. SuccessIsShown'
    BY <1>4, <2>1, <2>2, <2>3, <2>4, <2>5, <2>6 DEF IInv, HandlersType, SuccessIsShown,
       Working, MarkPublished, NextCommand, Goto, registry, handlers, channels, agents,
       history
  <2>16. AckedWasPerformed'
    BY <1>4, <2>1, <2>2, <2>3, <2>4, <2>5, <2>6 DEF IInv, RegistryType, HistoryType,
       ChannelsType, AckedWasPerformed, UnderWay, UnderWayOf, Working, MarkPublished,
       NextCommand, Goto, registry, handlers, channels, agents, history
  <2> QED
    BY <2>7, <2>8, <2>9, <2>10, <2>11, <2>12, <2>13, <2>14, <2>15, <2>16 DEF IInv, TypeOK
<1>5. ASSUME NEW h \in Handlers, MarkRefused(h)
      PROVE  IInv'
  <2>1. pc[h] # "idle" /\ Working(h)
    BY <1>5, AtWork DEF MarkRefused
  <2>2. /\ slot \in [Handlers -> Nat] /\ pc \in [Handlers -> HandlerPc]
      /\ job' = job /\ accepted' = accepted
    BY <1>5 DEF IInv, TypeOK, HandlersType, MarkRefused
  <2>3. \/ /\ slot'[h] = slot[h] + 1
         /\ slot'[h] \in 1 .. Len(Members[job[h]])
         /\ pc'[h] = "create"
      \/ /\ slot'[h] = slot[h]
         /\ pc'[h] \in {"idle", "register"}
         /\ pc'[h] = "register" => job[h] \in Formations
    BY <1>5, <2>2, <2>1 DEF MarkRefused, NextCommand, Goto, Working
  <2>4. \A k \in Handlers \ {h} : slot'[k] = slot[k] /\ pc'[k] = pc[k]
    BY <1>5, <2>2 DEF MarkRefused, NextCommand, Goto
  <2>5. slot' \in [Handlers -> Nat] /\ pc' \in [Handlers -> HandlerPc]
    BY <1>5, <2>2, <2>1 DEF MarkRefused, NextCommand, Goto, Working, HandlerPc
  <2>6. \A c \in Commands : shown'[c] = IF c = Current(h) THEN "failed" ELSE shown[c]
    BY <1>5, <2>1 DEF IInv, TypeOK, RegistryType, Working, MarkRefused
  <2>7. \A d \in Commands : shown'[d] = "unissued" <=> shown[d] = "unissued"
    BY <1>5, <2>1, <2>6 DEF IInv, BeingIssued, MarkRefused
  <2>8. ChannelsType' /\ AgentsType' /\ HistoryType'
    BY <1>5 DEF IInv, TypeOK, ChannelsType, AgentsType, HistoryType, Current, MarkRefused,
       NextCommand, Goto, registry, handlers, channels, agents, history
  <2>9. RegistryType'
    BY <1>5, <2>1, <2>2, <2>3, <2>4, <2>5, <2>6, <2>7 DEF IInv, TypeOK, RegistryType,
       ChannelsType, HandlersHold, View, Statuses, FormationOrNone, Working, MarkRefused,
       NextCommand, Goto, registry, handlers, channels, agents, history
  <2>10. HandlersType'
    BY <1>5, <2>1, <2>2, <2>5 DEF IInv, TypeOK, HandlersType, Working, MarkRefused
  <2>11. HandlersHold'
    BY <1>5, <2>1, <2>2, <2>3, <2>4, <2>5, <2>6, <2>7, FleetAssumption DEF IInv,
       HandlersType, HandlersHold, Working, MarkRefused, NextCommand, Goto, registry,
       handlers, channels, agents, history
  <2>12. OneHandlerPerRequest'
    BY <1>5, <2>1, <2>2, <2>3, <2>4, <2>5, <2>6, <2>7, FleetAssumption DEF IInv, TypeOK,
       HandlersType, HandlersHold, OneHandlerPerRequest, Working, MarkRefused,
       NextCommand, Goto, registry, handlers, channels, agents, history
  <2>13. NotYetIssued'
    <3>1. ASSUME NEW q \in Requests \ accepted', NEW r \in Robots
          PROVE  shown'[<<q, r>>] = "unissued"
      BY <1>5, <2>1, <2>2, <2>3, <2>4, <2>5, <2>6, <2>7 DEF IInv, NotYetIssued, Commands
    <3>2. ASSUME NEW k \in Handlers, pc'[k] # "idle", NEW i \in 1 .. Len(Members[job'[k]]),
                 i > slot'[k] \/ (i = slot'[k] /\ pc'[k] = "create")
          PROVE  shown'[<<job'[k], Members[job'[k]][i]>>] = "unissued"
      <4>1. /\ pc[k] # "idle" /\ job'[k] = job[k]
            /\ i > slot[k] \/ (i = slot[k] /\ pc[k] = "create")
        BY <2>1, <2>2, <2>3, <2>4, <2>5, <2>6, <2>7, <3>2
      <4>2. <<job[k], Members[job[k]][i]>> \in Commands
        BY <4>1, <3>2, AtWork DEF Working
      <4>3. shown[<<job[k], Members[job[k]][i]>>] = "unissued"
        BY <4>1, <3>2 DEF IInv, NotYetIssued
      <4> QED
        BY <4>2, <4>3, <1>5, <2>1, <2>2, <2>3, <2>4, <2>5, <2>6, <2>7
    <3> QED
      BY <3>1, <3>2 DEF NotYetIssued
  <2>14. BeingIssued'
    <3> SUFFICES ASSUME NEW k \in Handlers, pc'[k] \in {"publish", "mark_sent", "mark_refused"}
                 PROVE  shown'[Current(k)'] \in {"pending", "acked", "failed"}
      BY DEF BeingIssued
    <3>1. k # h /\ pc[k] = pc'[k] /\ Current(k)' = Current(k)
      BY <2>2, <2>3, <2>4 DEF Current
    <3>2. Current(k) \in Commands /\ shown[Current(k)] \in {"pending", "acked", "failed"}
      BY <3>1, AtWork DEF Working, IInv, BeingIssued
    <3>3. Current(k) # Current(h)
      BY <2>1, <3>1, <1>5 DEF IInv, OneHandlerPerRequest, Current
    <3> QED
      BY <1>5, <3>1, <3>2, <3>3 DEF MarkRefused
  <2>15. UnderWay'
    BY <1>5, <2>1, <2>2, <2>3, <2>4, <2>5, <2>6, <2>7 DEF IInv, RegistryType,
       ChannelsType, AgentsType, HistoryType, UnderWay, UnderWayOf, Working, MarkRefused,
       NextCommand, Goto, registry, handlers, channels, agents, history
  <2>16. SuccessIsShown'
    BY <1>5, <2>1, <2>2, <2>3, <2>4, <2>5, <2>6, <2>7 DEF IInv, RegistryType,
       HandlersType, SuccessIsShown, Working, MarkRefused, NextCommand, Goto, registry,
       handlers, channels, agents, history
  <2>17. AckedWasPerformed'
    BY <1>5, <2>1, <2>2, <2>3, <2>4, <2>5, <2>6, <2>7 DEF IInv, RegistryType, HistoryType,
       ChannelsType, AckedWasPerformed, UnderWay, UnderWayOf, Working, MarkRefused,
       NextCommand, Goto, registry, handlers, channels, agents, history
  <2> QED
    BY <2>8, <2>9, <2>10, <2>11, <2>12, <2>13, <2>14, <2>15, <2>16, <2>17 DEF IInv, TypeOK
<1>6. ASSUME NEW h \in Handlers, RegisterFormation(h)
      PROVE  IInv'
  <2>1. pc[h] # "idle" /\ Working(h)
    BY <1>6, AtWork DEF RegisterFormation
  <2>2. /\ ChannelsType' /\ AgentsType' /\ HistoryType' /\ UnderWay'
        /\ SuccessIsShown' /\ AckedWasPerformed'
    BY <1>6 DEF IInv, TypeOK, ChannelsType, AgentsType, HistoryType, UnderWay,
       SuccessIsShown, AckedWasPerformed, UnderWayOf, Current, RegisterFormation, Goto,
       registry, handlers, channels, agents, history
  <2>3. RegistryType'
    BY <1>6, <2>1 DEF IInv, TypeOK, RegistryType, ChannelsType, HandlersHold, View,
       Statuses, FormationOrNone, Working, RegisterFormation, Goto, registry, handlers,
       channels, agents, history
  <2>4. HandlersType'
    BY <1>6, <2>1, FleetAssumption DEF IInv, TypeOK, HandlersType, HandlersHold,
       HandlerPc, Working, RegisterFormation, Goto, registry, handlers, channels, agents,
       history
  <2>5. HandlersHold'
    BY <1>6, <2>1, FleetAssumption DEF IInv, HandlersType, HandlersHold, Working,
       RegisterFormation, Goto, registry, handlers, channels, agents, history
  <2>6. OneHandlerPerRequest'
    BY <1>6, <2>1, FleetAssumption DEF IInv, HandlersHold, OneHandlerPerRequest, Working,
       RegisterFormation, Goto, registry, handlers, channels, agents, history
  <2>7. NotYetIssued'
    BY <1>6, <2>1, FleetAssumption DEF IInv, NotYetIssued, Working, RegisterFormation,
       Goto, registry, handlers, channels, agents, history
  <2>8. BeingIssued'
    BY <1>6, <2>1, FleetAssumption DEF IInv, HandlersType, HandlersHold,
       OneHandlerPerRequest, BeingIssued, Current, Working, RegisterFormation, Goto,
       registry, handlers, channels, agents, history
  <2> QED
    BY <2>2, <2>3, <2>4, <2>5, <2>6, <2>7, <2>8 DEF IInv, TypeOK
<1>7. ASSUME NEW c \in Commands, ExpireCommand(c)
      PROVE  IInv'
  <2>1. \A d \in Commands : shown'[d] = IF d = c THEN "timeout" ELSE shown[d]
    BY <1>7 DEF IInv, TypeOK, RegistryType, ExpireCommand
  <2>2. \A d \in Commands : shown'[d] = "unissued" <=> shown[d] = "unissued"
    BY <1>7, <2>1 DEF ExpireCommand
  <2>3. /\ HandlersType' /\ ChannelsType' /\ AgentsType' /\ HistoryType'
        /\ HandlersHold' /\ OneHandlerPerRequest'
    BY <1>7 DEF IInv, TypeOK, HandlersType, ChannelsType, AgentsType, HistoryType,
       HandlersHold, OneHandlerPerRequest, Current, ExpireCommand, registry, handlers,
       channels, agents, history
  <2>4. RegistryType'
    BY <1>7, <2>1, <2>2 DEF IInv, TypeOK, RegistryType, ChannelsType, HandlersHold, View,
       Statuses, FormationOrNone, ExpireCommand, registry, handlers, channels, agents,
       history
  <2>5. NotYetIssued'
    <3>1. ASSUME NEW q \in Requests \ accepted', NEW r1 \in Robots
          PROVE  shown'[<<q, r1>>] = "unissued"
      BY <1>7, <2>1, <2>2 DEF IInv, NotYetIssued, Commands, ExpireCommand, registry,
         handlers, channels, agents, history
    <3>2. ASSUME NEW k \in Handlers, pc'[k] # "idle", NEW i \in 1 .. Len(Members[job'[k]]),
                 i > slot'[k] \/ (i = slot'[k] /\ pc'[k] = "create")
          PROVE  shown'[<<job'[k], Members[job'[k]][i]>>] = "unissued"
      <4>1. job' = job /\ slot' = slot /\ pc'[k] = pc[k]
        BY <1>7, <3>2 DEF ExpireCommand, handlers, channels, agents, history
      <4>2. <<job[k], Members[job[k]][i]>> \in Commands
        BY <4>1, <3>2, AtWork DEF Working
      <4>3. shown[<<job[k], Members[job[k]][i]>>] = "unissued"
        BY <4>1, <3>2 DEF IInv, NotYetIssued
      <4> QED
        BY <4>1, <4>2, <4>3, <1>7, <2>1, <2>2
    <3> QED
      BY <3>1, <3>2 DEF NotYetIssued
  <2>6. BeingIssued'
    <3> SUFFICES ASSUME NEW k \in Handlers, pc'[k] \in {"publish", "mark_sent", "mark_refused"}
                 PROVE  shown'[Current(k)'] \in {"pending", "acked", "failed"}
      BY DEF BeingIssued
    <3>1. pc[k] = pc'[k] /\ Current(k)' = Current(k)
      BY <1>7 DEF Current, ExpireCommand, handlers, channels, agents, history
    <3>2. Current(k) \in Commands /\ shown[Current(k)] \in {"pending", "acked", "failed"}
      BY <3>1, AtWork DEF Working, IInv, BeingIssued
    <3> QED
      BY <1>7, <3>1, <3>2 DEF ExpireCommand
  <2>7. UnderWay'
    BY <1>7, <2>1, <2>2 DEF IInv, UnderWay, UnderWayOf, ExpireCommand, registry, handlers,
       channels, agents, history
  <2>8. SuccessIsShown'
    BY <1>7, <2>1, <2>2 DEF IInv, RegistryType, HandlersType, SuccessIsShown,
       ExpireCommand, registry, handlers, channels, agents, history
  <2>9. AckedWasPerformed'
    BY <1>7, <2>1, <2>2 DEF IInv, HistoryType, ChannelsType, AckedWasPerformed, UnderWay,
       UnderWayOf, ExpireCommand, registry, handlers, channels, agents, history
  <2> QED
    BY <2>3, <2>4, <2>5, <2>6, <2>7, <2>8, <2>9 DEF IInv, TypeOK
<1>8. ASSUME NEW r \in Robots, Silence(r)
      PROVE  IInv'
  <2>1. /\ HandlersType' /\ ChannelsType' /\ AgentsType' /\ HistoryType'
        /\ HandlersHold' /\ OneHandlerPerRequest' /\ NotYetIssued' /\ BeingIssued'
        /\ UnderWay' /\ SuccessIsShown' /\ AckedWasPerformed'
    BY <1>8 DEF IInv, TypeOK, HandlersType, ChannelsType, AgentsType, HistoryType,
       HandlersHold, OneHandlerPerRequest, NotYetIssued, BeingIssued, UnderWay,
       SuccessIsShown, AckedWasPerformed, UnderWayOf, Current, Silence, registry,
       handlers, channels, agents, history
  <2>2. RegistryType'
    BY <1>8 DEF IInv, TypeOK, RegistryType, ChannelsType, HandlersHold, View, Statuses,
       FormationOrNone, Silence, registry, handlers, channels, agents, history
  <2> QED
    BY <2>1, <2>2 DEF IInv, TypeOK
<1>9. ASSUME NEW r \in Robots, HandleAck(r)
      PROVE  IInv'
  <2>1. /\ Tail(up[r]) \in Seq(Messages) /\ Head(up[r]) \in Messages
      /\ Head(up[r]) \in Elements(up[r])
      /\ Elements(Tail(up[r])) \subseteq Elements(up[r])
    BY <1>9, ReceiveTakes DEF IInv, TypeOK, ChannelsType, HandleAck
  <2>2. Head(up[r]) \in AckMessages
    BY <1>9, <2>1 DEF Messages, ReportMessages, HandleAck
  <2>3. Head(up[r]).command \in Commands /\ Head(up[r]).result \in {"ok", "failed"}
    BY <2>2 DEF AckMessages
  <2>4. \/ shown' = shown
      \/ /\ shown[Head(up[r]).command] # "unissued"
         /\ \A c \in Commands : c # Head(up[r]).command => shown'[c] = shown[c]
         /\ shown'[Head(up[r]).command] \in {"acked", "failed"}
    BY <1>9, <2>3 DEF IInv, TypeOK, RegistryType, HandleAck
  <2>5. \A d \in Commands : shown'[d] = "unissued" <=> shown[d] = "unissued"
    BY <2>4
  <2>6. HandlersType' /\ AgentsType' /\ HistoryType' /\ HandlersHold' /\ OneHandlerPerRequest'
    BY <1>9 DEF IInv, TypeOK, HandlersType, AgentsType, HistoryType, HandlersHold,
       OneHandlerPerRequest, Current, HandleAck, Received, Seen, Target, registry,
       handlers, channels, agents, history
  <2>7. RegistryType'
    <3>1. shown' \in [Commands -> Statuses] /\ ack' \in [Commands -> {"none", "ok", "failed"}]
      BY <1>9, <2>1, <2>2, <2>3, <2>4, <2>5 DEF IInv, TypeOK, RegistryType, Statuses,
         HandleAck
    <3>2. view[r] \in View /\ view' = [view EXCEPT ![r].online = TRUE, ![r].recent = TRUE]
      BY <1>9 DEF IInv, TypeOK, RegistryType, HandleAck, Seen
    <3>3. [view[r] EXCEPT !.online = TRUE, !.recent = TRUE] \in View
      BY <3>2 DEF View
    <3>4. view' \in [Robots -> View]
      BY <3>2, <3>3 DEF IInv, TypeOK, RegistryType
    <3> QED
      BY <1>9, <3>1, <3>4 DEF IInv, TypeOK, RegistryType, HandleAck
  <2>8. ChannelsType'
    BY <1>9, <2>1, <2>2, <2>3, <2>4, <2>5 DEF IInv, TypeOK, ChannelsType, AgentsType,
       FaultKinds, HandleAck, Received, Seen, Target, registry, handlers, channels,
       agents, history
  <2>9. NotYetIssued'
    <3>1. ASSUME NEW q \in Requests \ accepted', NEW r1 \in Robots
          PROVE  shown'[<<q, r1>>] = "unissued"
      BY <1>9, <2>1, <2>2, <2>3, <2>4, <2>5 DEF IInv, NotYetIssued, Commands, HandleAck,
         Received, Seen, Target, registry, handlers, channels, agents, history
    <3>2. ASSUME NEW k \in Handlers, pc'[k] # "idle", NEW i \in 1 .. Len(Members[job'[k]]),
                 i > slot'[k] \/ (i = slot'[k] /\ pc'[k] = "create")
          PROVE  shown'[<<job'[k], Members[job'[k]][i]>>] = "unissued"
      <4>1. job' = job /\ slot' = slot /\ pc'[k] = pc[k]
        BY <1>9, <3>2 DEF HandleAck, registry, handlers, channels, agents, history
      <4>2. <<job[k], Members[job[k]][i]>> \in Commands
        BY <4>1, <3>2, AtWork DEF Working
      <4>3. shown[<<job[k], Members[job[k]][i]>>] = "unissued"
        BY <4>1, <3>2 DEF IInv, NotYetIssued
      <4> QED
        BY <4>1, <4>2, <4>3, <1>9, <2>1, <2>2, <2>3, <2>4, <2>5
    <3> QED
      BY <3>1, <3>2 DEF NotYetIssued
  <2>10. BeingIssued'
    <3> SUFFICES ASSUME NEW k \in Handlers, pc'[k] \in {"publish", "mark_sent", "mark_refused"}
                 PROVE  shown'[Current(k)'] \in {"pending", "acked", "failed"}
      BY DEF BeingIssued
    <3>1. pc[k] = pc'[k] /\ Current(k)' = Current(k)
      BY <1>9 DEF Current, HandleAck, Target, registry, handlers, channels, agents,
         history
    <3>2. Current(k) \in Commands /\ shown[Current(k)] \in {"pending", "acked", "failed"}
      BY <3>1, AtWork DEF Working, IInv, BeingIssued
    <3> QED
      BY <2>4, <2>5, <3>1, <3>2
  <2>11. UnderWay'
    <3> SUFFICES ASSUME NEW s \in Robots
                 PROVE  UnderWayOf(s)'
      BY DEF UnderWay
    <3>1. UnderWayOf(s) /\ Typed(s)
      BY TypedChannels DEF IInv, UnderWay
    <3>2. down' = down /\ busy' = busy /\ performed' = performed
      BY <1>9 DEF HandleAck, registry, handlers, channels, agents, history
    <3>3. Elements(up'[s]) \subseteq Elements(up[s])
      BY <1>9, <2>1 DEF HandleAck, Received
    <3> QED
      BY <2>5, <3>1, <3>2, <3>3 DEF UnderWayOf, Typed
  <2>12. SuccessIsShown'
    BY <1>9, <2>1, <2>2, <2>3, <2>4, <2>5 DEF IInv, TypeOK, RegistryType, HandlersType,
       SuccessIsShown, HandleAck, Received, Seen, Target, registry, handlers, channels,
       agents, history
  <2>13. AckedWasPerformed'
    BY <1>9, <2>1, <2>2, <2>3, <2>4, <2>5 DEF IInv, TypeOK, RegistryType, HistoryType,
       ChannelsType, AckedWasPerformed, UnderWay, UnderWayOf, HandleAck, Received, Seen,
       Target, registry, handlers, channels, agents, history
  <2> QED
    BY <2>6, <2>7, <2>8, <2>9, <2>10, <2>11, <2>12, <2>13 DEF IInv, TypeOK
<1>10. ASSUME NEW r \in Robots, HandleReport(r)
      PROVE  IInv'
  <2>1. /\ Tail(up[r]) \in Seq(Messages) /\ Head(up[r]) \in Messages
      /\ Head(up[r]) \in Elements(up[r])
      /\ Elements(Tail(up[r])) \subseteq Elements(up[r])
    BY <1>10, ReceiveTakes DEF IInv, TypeOK, ChannelsType, HandleReport
  <2>2. Head(up[r]) \in ReportMessages
    BY <1>10, <2>1 DEF Messages, AckMessages, HandleReport
  <2>3. Head(up[r]).formation \in FormationOrNone /\ Head(up[r]).online \in BOOLEAN
    BY <2>2 DEF ReportMessages
  <2>4. /\ HandlersType' /\ AgentsType' /\ HandlersHold' /\ OneHandlerPerRequest'
        /\ NotYetIssued' /\ BeingIssued' /\ SuccessIsShown' /\ AckedWasPerformed'
    BY <1>10 DEF IInv, TypeOK, HandlersType, AgentsType, HandlersHold,
       OneHandlerPerRequest, NotYetIssued, BeingIssued, SuccessIsShown, AckedWasPerformed,
       Current, HandleReport, Received, registry, handlers, channels, agents, history
  <2>5. RegistryType'
    BY <1>10, <2>1, <2>2, <2>3 DEF IInv, TypeOK, RegistryType, ChannelsType, HandlersHold,
       View, Statuses, FormationOrNone, HandleReport, Received, registry, handlers,
       channels, agents, history
  <2>6. ChannelsType'
    BY <1>10, <2>1, <2>2, <2>3 DEF IInv, TypeOK, ChannelsType, AgentsType, FaultKinds,
       HandleReport, Received, registry, handlers, channels, agents, history
  <2>7. HistoryType'
    BY <1>10, <2>1, <2>2, <2>3 DEF IInv, TypeOK, HistoryType, ChannelsType, AgentsType,
       FormationOrNone, HandleReport, Received, registry, handlers, channels, agents,
       history
  <2>8. UnderWay'
    BY <1>10, <2>1, <2>2, <2>3 DEF IInv, ChannelsType, AgentsType, HistoryType, UnderWay,
       UnderWayOf, HandleReport, Received, registry, handlers, channels, agents, history
  <2> QED
    BY <2>4, <2>5, <2>6, <2>7, <2>8 DEF IInv, TypeOK
<1>11. ASSUME RestartApi
      PROVE  IInv'
  <2>1. \A d \in Commands : shown'[d] = "unissued" <=> shown[d] = "unissued"
    BY <1>11 DEF RestartApi
  <2>2. AgentsType' /\ HistoryType'
    BY <1>11 DEF IInv, TypeOK, AgentsType, HistoryType, Current, RestartApi, Fault,
       EmptyRobot, registry, handlers, channels, agents, history
  <2>3. RegistryType'
    BY <1>11, <2>1 DEF RegistryType, ChannelsType, HandlersHold, View, Statuses,
       FormationOrNone, RestartApi, Fault, EmptyRobot, registry, handlers, channels,
       agents, history
  <2>4. HandlersType'
    BY <1>11, <2>1, FleetAssumption DEF IInv, TypeOK, HandlersType, HandlersHold,
       HandlerPc, RestartApi, Fault, EmptyRobot, registry, handlers, channels, agents,
       history
  <2>5. ChannelsType'
    BY <1>11, <2>1 DEF IInv, TypeOK, ChannelsType, AgentsType, FaultKinds, RestartApi,
       Fault, EmptyRobot, registry, handlers, channels, agents, history
  <2>6. HandlersHold'
    BY <1>11, <2>1, FleetAssumption DEF HandlersHold, RestartApi, Fault, EmptyRobot,
       registry, handlers, channels, agents, history
  <2>7. OneHandlerPerRequest'
    BY <1>11, <2>1, FleetAssumption DEF OneHandlerPerRequest, RestartApi, Fault,
       EmptyRobot, registry, handlers, channels, agents, history
  <2>8. NotYetIssued'
    <3>1. ASSUME NEW q \in Requests \ accepted', NEW r1 \in Robots
          PROVE  shown'[<<q, r1>>] = "unissued"
      BY <1>11, <2>1 DEF IInv, NotYetIssued, Commands, RestartApi, Fault, EmptyRobot,
         registry, handlers, channels, agents, history
    <3>2. ASSUME NEW k \in Handlers, pc'[k] # "idle", NEW i \in 1 .. Len(Members[job'[k]]),
                 i > slot'[k] \/ (i = slot'[k] /\ pc'[k] = "create")
          PROVE  shown'[<<job'[k], Members[job'[k]][i]>>] = "unissued"
      <4>1. job' = job /\ slot' = slot /\ pc'[k] = pc[k]
        BY <1>11, <3>2 DEF RestartApi, handlers, channels, agents, history
      <4>2. <<job[k], Members[job[k]][i]>> \in Commands
        BY <4>1, <3>2, AtWork DEF Working
      <4>3. shown[<<job[k], Members[job[k]][i]>>] = "unissued"
        BY <4>1, <3>2 DEF IInv, NotYetIssued
      <4> QED
        BY <4>1, <4>2, <4>3, <1>11, <2>1
    <3> QED
      BY <3>1, <3>2 DEF NotYetIssued
  <2>9. BeingIssued'
    BY <1>11, <2>1, FleetAssumption DEF OneHandlerPerRequest, BeingIssued, Current,
       RestartApi, Fault, EmptyRobot, registry, handlers, channels, agents, history
  <2>10. UnderWay'
    <3> SUFFICES ASSUME NEW s \in Robots
                 PROVE  UnderWayOf(s)'
      BY DEF UnderWay
    <3>1. UnderWayOf(s) /\ Typed(s)
      BY TypedChannels DEF IInv, UnderWay
    <3>2. down' = down /\ up' = up /\ busy' = busy /\ performed' = performed
      BY <1>11 DEF RestartApi, agents, history
    <3> QED
      BY <2>1, <3>1, <3>2 DEF UnderWayOf, Typed
  <2>11. SuccessIsShown'
    BY <1>11, <2>1 DEF HandlersType, SuccessIsShown, RestartApi, Fault, EmptyRobot,
       registry, handlers, channels, agents, history
  <2>12. AckedWasPerformed'
    BY <1>11, <2>1 DEF ChannelsType, AckedWasPerformed, UnderWay, UnderWayOf, RestartApi,
       Fault, EmptyRobot, registry, handlers, channels, agents, history
  <2> QED
    BY <2>2, <2>3, <2>4, <2>5, <2>6, <2>7, <2>8, <2>9, <2>10, <2>11, <2>12 DEF IInv,
       TypeOK
<1>12. ASSUME NEW r \in Robots, LoseDown(r)
      PROVE  IInv'
  <2>1. /\ Tail(down[r]) \in Seq(Commands) /\ Head(down[r]) \in Commands
      /\ Head(down[r]) \in Elements(down[r])
      /\ Elements(Tail(down[r])) \subseteq Elements(down[r])
    BY <1>12, ReceiveTakes DEF IInv, TypeOK, ChannelsType, LoseDown
  <2>2. /\ RegistryType' /\ HandlersType' /\ AgentsType' /\ HistoryType'
        /\ HandlersHold' /\ OneHandlerPerRequest' /\ NotYetIssued' /\ BeingIssued'
        /\ SuccessIsShown' /\ AckedWasPerformed'
    <3>1. UNCHANGED <<registry, handlers, history, agents>>
      BY <1>12 DEF LoseDown
    <3> QED
      BY <3>1, Undisturbed
  <2>3. ChannelsType'
    BY <1>12, <2>1 DEF IInv, TypeOK, ChannelsType, AgentsType, FaultKinds, LoseDown,
       Fault, registry, handlers, channels, agents, history
  <2>4. UnderWay'
    BY <1>12, <2>1 DEF IInv, UnderWay, UnderWayOf, LoseDown, Fault, registry, handlers,
       channels, agents, history
  <2> QED
    BY <2>2, <2>3, <2>4 DEF IInv, TypeOK
<1>13. ASSUME NEW r \in Robots, LoseUp(r)
      PROVE  IInv'
  <2>1. /\ Tail(up[r]) \in Seq(Messages) /\ Head(up[r]) \in Messages
      /\ Head(up[r]) \in Elements(up[r])
      /\ Elements(Tail(up[r])) \subseteq Elements(up[r])
    BY <1>13, ReceiveTakes DEF IInv, TypeOK, ChannelsType, LoseUp
  <2>2. /\ RegistryType' /\ HandlersType' /\ AgentsType' /\ HistoryType'
        /\ HandlersHold' /\ OneHandlerPerRequest' /\ NotYetIssued' /\ BeingIssued'
        /\ SuccessIsShown' /\ AckedWasPerformed'
    <3>1. UNCHANGED <<registry, handlers, history, agents>>
      BY <1>13 DEF LoseUp
    <3> QED
      BY <3>1, Undisturbed
  <2>3. ChannelsType'
    BY <1>13, <2>1 DEF IInv, TypeOK, ChannelsType, AgentsType, FaultKinds, LoseUp,
       Received, Fault, registry, handlers, channels, agents, history
  <2>4. UnderWay'
    BY <1>13, <2>1 DEF IInv, UnderWay, UnderWayOf, LoseUp, Received, Fault, registry,
       handlers, channels, agents, history
  <2> QED
    BY <2>2, <2>3, <2>4 DEF IInv, TypeOK
<1>14. ASSUME NEW r \in Robots, RepeatDown(r)
      PROVE  IInv'
  <2>1. /\ down[r] \o down[r] \in Seq(Commands)
      /\ Elements(down[r] \o down[r]) = Elements(down[r])
    <3>1. down[r] \in Seq(Commands)
      BY <1>14 DEF IInv, TypeOK, ChannelsType
    <3>2. /\ down[r] \o down[r] \in Seq(Commands)
          /\ Elements(down[r] \o down[r]) = Elements(down[r]) \cup Elements(down[r])
      BY <3>1, ConcatAdds
    <3> QED
      BY <3>2
  <2>2. /\ RegistryType' /\ HandlersType' /\ AgentsType' /\ HistoryType'
        /\ HandlersHold' /\ OneHandlerPerRequest' /\ NotYetIssued' /\ BeingIssued'
        /\ SuccessIsShown' /\ AckedWasPerformed'
    <3>1. UNCHANGED <<registry, handlers, history, agents>>
      BY <1>14 DEF RepeatDown
    <3> QED
      BY <3>1, Undisturbed
  <2>3. ChannelsType'
    BY <1>14, <2>1 DEF IInv, TypeOK, ChannelsType, AgentsType, FaultKinds, RepeatDown,
       Fault, registry, handlers, channels, agents, history
  <2>4. UnderWay'
    BY <1>14, <2>1 DEF IInv, UnderWay, UnderWayOf, RepeatDown, Fault, registry, handlers,
       channels, agents, history
  <2> QED
    BY <2>2, <2>3, <2>4 DEF IInv, TypeOK
<1>15. ASSUME NEW r \in Robots, RepeatUp(r)
      PROVE  IInv'
  <2>1. /\ up[r] \o up[r] \in Seq(Messages)
      /\ Elements(up[r] \o up[r]) = Elements(up[r])
    <3>1. up[r] \in Seq(Messages)
      BY <1>15 DEF IInv, TypeOK, ChannelsType
    <3>2. /\ up[r] \o up[r] \in Seq(Messages)
          /\ Elements(up[r] \o up[r]) = Elements(up[r]) \cup Elements(up[r])
      BY <3>1, ConcatAdds
    <3> QED
      BY <3>2
  <2>2. /\ RegistryType' /\ HandlersType' /\ AgentsType' /\ HistoryType'
        /\ HandlersHold' /\ OneHandlerPerRequest' /\ NotYetIssued' /\ BeingIssued'
        /\ SuccessIsShown' /\ AckedWasPerformed'
    <3>1. UNCHANGED <<registry, handlers, history, agents>>
      BY <1>15 DEF RepeatUp
    <3> QED
      BY <3>1, Undisturbed
  <2>3. ChannelsType'
    BY <1>15, <2>1 DEF IInv, TypeOK, ChannelsType, AgentsType, FaultKinds, RepeatUp,
       Fault, registry, handlers, channels, agents, history
  <2>4. UnderWay'
    BY <1>15, <2>1 DEF IInv, UnderWay, UnderWayOf, RepeatUp, Fault, registry, handlers,
       channels, agents, history
  <2> QED
    BY <2>2, <2>3, <2>4 DEF IInv, TypeOK
<1>16. ASSUME NEW r \in Robots, TakeCommand(r)
      PROVE  IInv'
  <2>1. /\ Tail(down[r]) \in Seq(Commands) /\ Head(down[r]) \in Commands
      /\ Head(down[r]) \in Elements(down[r])
      /\ Elements(Tail(down[r])) \subseteq Elements(down[r])
    BY <1>16, ReceiveTakes DEF IInv, TypeOK, ChannelsType, TakeCommand
  <2>2. /\ RegistryType' /\ HandlersType' /\ HistoryType' /\ HandlersHold'
        /\ OneHandlerPerRequest' /\ NotYetIssued' /\ BeingIssued' /\ SuccessIsShown'
        /\ AckedWasPerformed'
    <3>1. UNCHANGED <<registry, handlers, history>>
      BY <1>16 DEF TakeCommand
    <3> QED
      BY <3>1, Undisturbed
  <2>3. ChannelsType'
    BY <1>16, <2>1 DEF IInv, TypeOK, ChannelsType, AgentsType, FaultKinds, TakeCommand,
       registry, handlers, channels, agents, history
  <2>4. AgentsType'
    BY <1>16, <2>1 DEF IInv, TypeOK, AgentsType, ChannelsType, FormationOrNone,
       ReportMessages, NoDraft, TakeCommand, registry, handlers, channels, agents, history
  <2>5. UnderWay'
    BY <1>16, <2>1 DEF IInv, UnderWay, UnderWayOf, TakeCommand, registry, handlers,
       channels, agents, history
  <2> QED
    BY <2>2, <2>3, <2>4, <2>5 DEF IInv, TypeOK
<1>17. ASSUME NEW r \in Robots, NEW result \in {"ok", "failed"}, AnswerCommand(r, result)
      PROVE  IInv'
  <2> DEFINE answer == [kind |-> "ack", command |-> busy[r], result |-> result]
  <2>1. /\ busy[r] \in Commands /\ answer \in Messages
        /\ answer.command = busy[r] /\ answer.result = result
    BY <1>17 DEF IInv, TypeOK, AgentsType, AnswerCommand, Messages, AckMessages
  <2>2. up' = [up EXCEPT ![r] = Append(@, answer)]
    BY <1>17 DEF AnswerCommand
  <2> HIDE DEF answer
  <2>3. up[r] \in Seq(Messages)
    BY <1>17 DEF IInv, TypeOK, ChannelsType
  <2>4. /\ Append(up[r], answer) \in Seq(Messages)
        /\ Elements(Append(up[r], answer)) = Elements(up[r]) \cup {answer}
    BY <2>1, <2>3, SendAdds
  <2>5. /\ RegistryType' /\ HandlersType' /\ HandlersHold' /\ OneHandlerPerRequest'
        /\ NotYetIssued' /\ BeingIssued' /\ SuccessIsShown'
    <3>1. UNCHANGED <<registry, handlers>>
      BY <1>17 DEF AnswerCommand
    <3> QED
      BY <3>1, Undisturbed
  <2>6. ChannelsType'
    BY <1>17, <2>1, <2>2, <2>3, <2>4 DEF IInv, TypeOK, ChannelsType, AgentsType,
       FaultKinds, AnswerCommand, registry, handlers, channels, agents, history
  <2>7. AgentsType'
    BY <1>17, <2>1, <2>2, <2>3, <2>4 DEF IInv, TypeOK, AgentsType, ChannelsType,
       FormationOrNone, ReportMessages, NoDraft, AnswerCommand, registry, handlers,
       channels, agents, history
  <2>8. HistoryType'
    BY <1>17, <2>1, <2>2, <2>3, <2>4 DEF IInv, TypeOK, HistoryType, ChannelsType,
       AgentsType, FormationOrNone, AnswerCommand, registry, handlers, channels, agents,
       history
  <2>9. UnderWay'
    <3> SUFFICES ASSUME NEW s \in Robots
                 PROVE  UnderWayOf(s)'
      BY DEF UnderWay
    <3>1. UnderWayOf(s) /\ Typed(s)
      BY TypedChannels DEF IInv, UnderWay
    <3>2. down' = down /\ shown' = shown
      BY <1>17 DEF AnswerCommand, registry, channels, agents, history
    <3>3. Elements(up'[s]) \subseteq Elements(up[s]) \cup {answer}
      BY <1>17, <2>2, <2>4 DEF IInv, TypeOK, ChannelsType
    <3>4. \A c \in Commands : performed[c] \subseteq performed'[c]
      BY <1>17 DEF AnswerCommand
    <3>5. result \in performed'[busy[r]]
      BY <1>17, <2>1 DEF IInv, TypeOK, HistoryType, AnswerCommand
    <3>6. shown[busy[r]] # "unissued" /\ (busy'[s] # None => busy'[s] = busy[s])
      BY <1>17 DEF IInv, UnderWay, UnderWayOf, TypeOK, AgentsType, AnswerCommand
    <3> QED
      BY <2>1, <3>1, <3>2, <3>3, <3>4, <3>5, <3>6 DEF UnderWayOf, Typed
  <2>10. AckedWasPerformed'
    BY <1>17, <2>1, <2>2, <2>3, <2>4 DEF IInv, HistoryType, ChannelsType,
       AckedWasPerformed, UnderWay, UnderWayOf, AnswerCommand, registry, handlers,
       channels, agents, history
  <2> QED
    BY <2>5, <2>6, <2>7, <2>8, <2>9, <2>10 DEF IInv, TypeOK
<1>18. ASSUME NEW r \in Robots, DraftReport(r)
      PROVE  IInv'
  <2>1. /\ RegistryType' /\ HandlersType' /\ ChannelsType' /\ HistoryType'
        /\ HandlersHold' /\ OneHandlerPerRequest' /\ NotYetIssued' /\ BeingIssued'
        /\ UnderWay' /\ SuccessIsShown' /\ AckedWasPerformed'
    <3>1. UNCHANGED <<registry, handlers, history, channels, busy>>
      BY <1>18 DEF DraftReport
    <3> QED
      BY <3>1, Undisturbed
  <2>2. AgentsType'
    BY <1>18 DEF IInv, TypeOK, AgentsType, ChannelsType, FormationOrNone, ReportMessages,
       NoDraft, DraftReport, ReportOf, registry, handlers, channels, agents, history
  <2> QED
    BY <2>1, <2>2 DEF IInv, TypeOK
<1>19. ASSUME NEW r \in Robots, SendReport(r)
      PROVE  IInv'
  <2>1. draft[r] \in Messages /\ draft[r].kind = "report"
    <3>1. draft[r] \in ReportMessages
      BY <1>19 DEF IInv, TypeOK, AgentsType, SendReport
    <3> QED
      BY <3>1 DEF Messages, ReportMessages
  <2>2. /\ Append(up[r], draft[r]) \in Seq(Messages)
      /\ Elements(Append(up[r], draft[r])) = Elements(up[r]) \cup {draft[r]}
    <3>1. up[r] \in Seq(Messages)
      BY <1>19 DEF IInv, TypeOK, ChannelsType
    <3> QED
      BY <3>1, <2>1, SendAdds
  <2>3. /\ RegistryType' /\ HandlersType' /\ HistoryType' /\ HandlersHold'
        /\ OneHandlerPerRequest' /\ NotYetIssued' /\ BeingIssued' /\ SuccessIsShown'
        /\ AckedWasPerformed'
    <3>1. UNCHANGED <<registry, handlers, history>>
      BY <1>19 DEF SendReport
    <3> QED
      BY <3>1, Undisturbed
  <2>4. ChannelsType'
    BY <1>19, <2>1, <2>2 DEF IInv, TypeOK, ChannelsType, AgentsType, FaultKinds,
       SendReport, registry, handlers, channels, agents, history
  <2>5. AgentsType'
    BY <1>19, <2>1, <2>2 DEF IInv, TypeOK, AgentsType, ChannelsType, FormationOrNone,
       ReportMessages, NoDraft, SendReport, registry, handlers, channels, agents, history
  <2>6. UnderWay'
    BY <1>19, <2>1, <2>2 DEF IInv, UnderWay, UnderWayOf, SendReport, registry, handlers,
       channels, agents, history
  <2> QED
    BY <2>3, <2>4, <2>5, <2>6 DEF IInv, TypeOK
<1>20. ASSUME NEW r \in Robots, StopAgent(r)
      PROVE  IInv'
  <2> DEFINE bye == [ReportOf(r) EXCEPT !.online = FALSE]
  <2>1. bye \in Messages /\ bye.kind = "report"
    BY <1>20 DEF IInv, TypeOK, AgentsType, ReportOf, Messages, ReportMessages
  <2>2. up' = [up EXCEPT ![r] = Append(@, bye)]
    BY <1>20 DEF StopAgent
  <2> HIDE DEF bye
  <2>3. /\ Append(up[r], bye) \in Seq(Messages)
      /\ Elements(Append(up[r], bye)) = Elements(up[r]) \cup {bye}
    <3>1. up[r] \in Seq(Messages)
      BY <1>20 DEF IInv, TypeOK, ChannelsType
    <3> QED
      BY <3>1, <2>1, SendAdds
  <2>4. /\ RegistryType' /\ HandlersType' /\ HistoryType' /\ HandlersHold'
        /\ OneHandlerPerRequest' /\ NotYetIssued' /\ BeingIssued' /\ SuccessIsShown'
        /\ AckedWasPerformed'
    <3>1. UNCHANGED <<registry, handlers, history>>
      BY <1>20 DEF StopAgent
    <3> QED
      BY <3>1, Undisturbed
  <2>5. ChannelsType'
    BY <1>20, <2>1, <2>2, <2>3 DEF IInv, TypeOK, ChannelsType, AgentsType, FaultKinds,
       StopAgent, ReportOf, Fault, registry, handlers, channels, agents, history
  <2>6. AgentsType'
    BY <1>20, <2>1, <2>2, <2>3 DEF IInv, TypeOK, AgentsType, ChannelsType,
       FormationOrNone, ReportMessages, NoDraft, StopAgent, ReportOf, Fault, registry,
       handlers, channels, agents, history
  <2>7. UnderWay'
    BY <1>20, <2>1, <2>2, <2>3 DEF IInv, ChannelsType, AgentsType, HistoryType, UnderWay,
       UnderWayOf, StopAgent, ReportOf, Fault, registry, handlers, channels, agents,
       history
  <2> QED
    BY <2>4, <2>5, <2>6, <2>7 DEF IInv, TypeOK
<1>21. ASSUME NEW r \in Robots, ExitAgent(r)
      PROVE  IInv'
  <2>1. /\ RegistryType' /\ HandlersType' /\ ChannelsType' /\ HistoryType'
        /\ HandlersHold' /\ OneHandlerPerRequest' /\ NotYetIssued' /\ BeingIssued'
        /\ SuccessIsShown' /\ AckedWasPerformed'
    <3>1. UNCHANGED <<registry, handlers, history, channels>>
      BY <1>21 DEF ExitAgent, AgentGone, channels
    <3> QED
      BY <3>1, Undisturbed
  <2>2. AgentsType'
    BY <1>21 DEF IInv, TypeOK, AgentsType, ChannelsType, FormationOrNone, ReportMessages,
       NoDraft, ExitAgent, AgentGone, registry, handlers, channels, agents, history
  <2>3. UnderWay'
    BY <1>21 DEF IInv, UnderWay, UnderWayOf, ExitAgent, AgentGone, registry, handlers,
       channels, agents, history
  <2> QED
    BY <2>1, <2>2, <2>3 DEF IInv, TypeOK
<1>22. ASSUME NEW r \in Robots, CrashAgent(r)
      PROVE  IInv'
  <2>1. /\ RegistryType' /\ HandlersType' /\ HistoryType' /\ HandlersHold'
        /\ OneHandlerPerRequest' /\ NotYetIssued' /\ BeingIssued' /\ SuccessIsShown'
        /\ AckedWasPerformed'
    <3>1. UNCHANGED <<registry, handlers, history>>
      BY <1>22 DEF CrashAgent, AgentGone
    <3> QED
      BY <3>1, Undisturbed
  <2>2. ChannelsType'
    BY <1>22 DEF IInv, TypeOK, ChannelsType, AgentsType, FaultKinds, CrashAgent,
       AgentGone, Fault, registry, handlers, channels, agents, history
  <2>3. AgentsType'
    BY <1>22 DEF IInv, TypeOK, AgentsType, ChannelsType, FormationOrNone, ReportMessages,
       NoDraft, CrashAgent, AgentGone, Fault, registry, handlers, channels, agents,
       history
  <2>4. UnderWay'
    BY <1>22 DEF IInv, UnderWay, UnderWayOf, CrashAgent, AgentGone, Fault, registry,
       handlers, channels, agents, history
  <2> QED
    BY <2>1, <2>2, <2>3, <2>4 DEF IInv, TypeOK
<1>23. ASSUME NEW r \in Robots, StartAgent(r)
      PROVE  IInv'
  <2>1. /\ RegistryType' /\ HandlersType' /\ ChannelsType' /\ HistoryType'
        /\ HandlersHold' /\ OneHandlerPerRequest' /\ NotYetIssued' /\ BeingIssued'
        /\ UnderWay' /\ SuccessIsShown' /\ AckedWasPerformed'
    <3>1. UNCHANGED <<registry, handlers, history, channels, busy>>
      BY <1>23 DEF StartAgent
    <3> QED
      BY <3>1, Undisturbed
  <2>2. AgentsType'
    BY <1>23 DEF IInv, TypeOK, AgentsType, ChannelsType, FormationOrNone, ReportMessages,
       NoDraft, StartAgent, registry, handlers, channels, agents, history
  <2> QED
    BY <2>1, <2>2 DEF IInv, TypeOK
<1>24. ASSUME NEW r \in Robots, ReportAnswered(r)
      PROVE  IInv'
  <2> DEFINE report == ReportOf(r)
  <2>1. report \in Messages /\ report.kind = "report"
    BY <1>24 DEF IInv, TypeOK, AgentsType, ReportOf, Messages, ReportMessages
  <2>2. up' = [up EXCEPT ![r] = Append(@, report)]
    BY <1>24 DEF ReportAnswered
  <2> HIDE DEF report
  <2>3. /\ Append(up[r], report) \in Seq(Messages)
        /\ Elements(Append(up[r], report)) = Elements(up[r]) \cup {report}
    <3>1. up[r] \in Seq(Messages)
      BY <1>24 DEF IInv, TypeOK, ChannelsType
    <3> QED
      BY <3>1, <2>1, SendAdds
  <2>4. /\ RegistryType' /\ HandlersType' /\ HistoryType' /\ HandlersHold'
        /\ OneHandlerPerRequest' /\ NotYetIssued' /\ BeingIssued' /\ SuccessIsShown'
        /\ AckedWasPerformed'
    <3>1. UNCHANGED <<registry, handlers, history>>
      BY <1>24 DEF ReportAnswered
    <3> QED
      BY <3>1, Undisturbed
  <2>5. ChannelsType'
    BY <1>24, <2>1, <2>2, <2>3 DEF IInv, TypeOK, ChannelsType, AgentsType, FaultKinds,
       ReportAnswered, registry, handlers, channels, agents, history
  <2>6. AgentsType'
    BY <1>24 DEF IInv, TypeOK, AgentsType, ReportAnswered
  <2>7. UnderWay'
    BY <1>24, <2>1, <2>2, <2>3 DEF IInv, UnderWay, UnderWayOf, ReportAnswered, registry,
       handlers, channels, agents, history
  <2> QED
    BY <2>4, <2>5, <2>6, <2>7 DEF IInv, TypeOK
<1>25. CASE UNCHANGED vars
  BY <1>25, Undisturbed DEF IInv, TypeOK, vars, agents
<1> QED
  BY <1>1, <1>2, <1>3, <1>4, <1>5, <1>6, <1>7, <1>8, <1>9, <1>10, <1>11, <1>12, <1>13,
     <1>14, <1>15, <1>16, <1>17, <1>18, <1>19, <1>20, <1>21, <1>22, <1>23, <1>24, <1>25
  DEF Next, HandlerStep, RobotStep, Deliver, NetworkThread, MainLoop

LEMMA Start == Init => IInv
<1> SUFFICES ASSUME Init
             PROVE  IInv
  OBVIOUS
<1>1. RegistryType
  BY DEF Init, RegistryType, Statuses, EmptyRobot, View, FormationOrNone
<1>2. HandlersType
  BY DEF Init, HandlersType, HandlerPc
<1>3. ChannelsType
  BY DEF Init, ChannelsType, FaultKinds
<1>4. AgentsType /\ HistoryType
  BY DEF Init, AgentsType, HistoryType, FormationOrNone
<1>5. HandlersHold /\ OneHandlerPerRequest /\ BeingIssued
  BY DEF Init, HandlersHold, OneHandlerPerRequest, BeingIssued
<1>6. NotYetIssued
  BY DEF Init, NotYetIssued, Commands
<1>7. UnderWay
  <2>1. ASSUME NEW r \in Robots
        PROVE  busy[r] = None /\ Elements(down[r]) = {} /\ Elements(up[r]) = {}
    BY <2>1 DEF Init, Elements
  <2> QED
    BY <2>1 DEF UnderWay, UnderWayOf
<1>8. SuccessIsShown /\ AckedWasPerformed
  BY DEF Init, SuccessIsShown, AckedWasPerformed
<1> QED
  BY <1>1, <1>2, <1>3, <1>4, <1>5, <1>6, <1>7, <1>8 DEF IInv, TypeOK

THEOREM Invariant == Spec => []IInv
  BY Start, Step, PTL DEF Spec

-------------------------------------------------------------------------------
(* The properties.                                                         *)

\* The types of all the variables, over any robots, requests and faults.
THEOREM TypeCorrect == Spec => []TypeOK
<1>1. IInv => TypeOK
  BY DEF IInv
<1> QED
  BY <1>1, Invariant, PTL

\* A recorded success stays on show, whatever the request's own thread, the
\* deadlines, repeated messages and restarts do afterwards.
THEOREM SuccessKept == Spec => []SuccessIsShown
<1>1. IInv => SuccessIsShown
  BY DEF IInv
<1> QED
  BY <1>1, Invariant, PTL

\* What is shown as acked was carried out by its robot.
THEOREM AckedPerformed == Spec => []AckedWasPerformed
<1>1. IInv => AckedWasPerformed
  BY DEF IInv
<1> QED
  BY <1>1, Invariant, PTL

\* A formation that shows as ready was carried out by each of its robots: the
\* acknowledgements behind it are never older than the work.
THEOREM ReadyFormed == Spec => []ReadyWasFormed
<1>1. ASSUME IInv, NEW f \in Formations, Ready(f), NEW r \in MemberSet(f)
      PROVE  "ok" \in performed[<<f, r>>]
  <2>1. shown[<<f, r>>] = "acked"
    BY <1>1 DEF Ready
  <2>2. f \in Requests /\ r \in Robots
    BY <1>1, FleetAssumption DEF MemberSet
  <2>3. <<f, r>> \in Commands
    BY <2>2 DEF Commands
  <2> QED
    BY <1>1, <2>1, <2>3 DEF IInv, AckedWasPerformed
<1>2. IInv => ReadyWasFormed
  BY <1>1 DEF ReadyWasFormed
<1> QED
  BY <1>2, Invariant, PTL

LEMMA LedgerStep ==
    ASSUME IInv, [Next]_vars
    PROVE  [Ledger!Next]_(Ledger!ledgerVars)
<1>1. ASSUME NEW h \in Handlers, CreateCommand(h)
      PROVE  Ledger!Issue(Current(h)) /\ Current(h) \in Commands
  <2>1. Working(h)
    BY <1>1, AtWork DEF CreateCommand
  <2>2. shown[Current(h)] = "unissued"
    BY <1>1, <2>1 DEF IInv, NotYetIssued, Working, Current, CreateCommand
  <2> QED
    BY <1>1, <2>1, <2>2 DEF CreateCommand, Working, history, Ledger!Issue, Ledger!Show
<1>2. ASSUME NEW h \in Handlers, MarkPublished(h)
      PROVE  \/ Ledger!MarkPublished(Current(h)) /\ Current(h) \in Commands
             \/ UNCHANGED <<shown, performed>>
  <2>1. Working(h) /\ shown[Current(h)] \in {"pending", "acked", "failed"}
    BY <1>2, AtWork DEF MarkPublished, IInv, BeingIssued
  <2> QED
    BY <1>2, <2>1 DEF MarkPublished, Working, history, Ledger!MarkPublished, Ledger!Show
<1>3. ASSUME NEW h \in Handlers, MarkRefused(h)
      PROVE  Ledger!MarkRefused(Current(h)) /\ Current(h) \in Commands
  <2>1. Working(h) /\ shown[Current(h)] \in {"pending", "acked", "failed"}
    BY <1>3, AtWork DEF MarkRefused, IInv, BeingIssued
  <2> QED
    BY <1>3, <2>1 DEF MarkRefused, Working, history, Ledger!MarkRefused, Ledger!Show
<1>4. ASSUME NEW c \in Commands, ExpireCommand(c)
      PROVE  Ledger!Expire(c)
  BY <1>4 DEF ExpireCommand, history, Ledger!Expire, Ledger!Show
<1>5. ASSUME NEW r \in Robots, HandleAck(r)
      PROVE  \/ \E c \in Commands : Ledger!Confirm(c) \/ Ledger!Fail(c)
             \/ UNCHANGED <<shown, performed>>
  <2> DEFINE m == Head(up[r])
  <2>1. m \in Messages /\ m \in Elements(up[r]) /\ m.kind = "ack"
    <3>1. up[r] \in Seq(Messages) /\ up[r] # <<>>
      BY <1>5 DEF IInv, TypeOK, ChannelsType, HandleAck
    <3> QED
      BY <1>5, <3>1, ReceiveTakes DEF HandleAck
  <2>2. m.command \in Commands /\ m.result \in {"ok", "failed"}
    BY <2>1 DEF Messages, AckMessages, ReportMessages
  <2>3. m.result \in performed[m.command]
    BY <1>5, <2>1 DEF IInv, UnderWay, UnderWayOf
  <2>4. performed' = performed
    BY <1>5 DEF HandleAck, history
  <2>5. \/ shown' = shown
        \/ /\ shown[m.command] \notin {"unissued", "forgotten"}
           /\ shown' = [shown EXCEPT ![m.command] = IF m.result = "ok" THEN "acked" ELSE "failed"]
    BY <1>5 DEF HandleAck
  <2> HIDE DEF m
  <2> QED
    BY <2>2, <2>3, <2>4, <2>5 DEF Ledger!Confirm, Ledger!Fail, Ledger!Show
<1>6. ASSUME RestartApi
      PROVE  Ledger!Forget
  BY <1>6 DEF RestartApi, history, Ledger!Forget
<1>7. ASSUME NEW r \in Robots, NEW result \in {"ok", "failed"}, AnswerCommand(r, result)
      PROVE  Ledger!Report(busy[r], result) /\ busy[r] \in Commands
  <2>1. busy[r] \in Commands /\ shown[busy[r]] # "unissued"
    BY <1>7 DEF IInv, TypeOK, AgentsType, UnderWay, UnderWayOf, AnswerCommand
  <2> QED
    BY <1>7, <2>1 DEF AnswerCommand, registry, Ledger!Report
<1>8. ASSUME NEW h \in Handlers,
             \/ \E q \in Requests : Accept(h, q)
             \/ \E taken, sent \in BOOLEAN : PublishJson(h, taken, sent)
             \/ RegisterFormation(h)
      PROVE  UNCHANGED <<shown, performed>>
  BY <1>8 DEF Accept, PublishJson, RegisterFormation, registry, history
<1>9. ASSUME NEW r \in Robots,
             \/ Silence(r) \/ HandleReport(r)
             \/ LoseDown(r) \/ LoseUp(r) \/ RepeatDown(r) \/ RepeatUp(r)
             \/ TakeCommand(r) \/ ReportAnswered(r) \/ DraftReport(r) \/ SendReport(r)
             \/ StopAgent(r) \/ ExitAgent(r) \/ CrashAgent(r) \/ StartAgent(r)
      PROVE  UNCHANGED <<shown, performed>>
  BY <1>9 DEF Silence, HandleReport, LoseDown, LoseUp, RepeatDown, RepeatUp, TakeCommand,
     ReportAnswered, DraftReport, SendReport, StopAgent, ExitAgent, CrashAgent, AgentGone,
     StartAgent, registry, history
<1>10. CASE UNCHANGED vars
  BY <1>10 DEF vars, registry, history, Ledger!ledgerVars
<1> QED
  BY <1>1, <1>2, <1>3, <1>4, <1>5, <1>6, <1>7, <1>8, <1>9, <1>10
  DEF Next, HandlerStep, RobotStep, Deliver, NetworkThread, MainLoop, Ledger!Next,
      Ledger!ledgerVars

\* Whatever happens to the messages and the processes, the status of each
\* command moves as the ledger allows.
THEOREM LedgerRefinement == Spec => LedgerSpec
<1>1. Init => Ledger!Init
  BY DEF Init, Ledger!Init
<1>2. IInv /\ [Next]_vars => [Ledger!Next]_(Ledger!ledgerVars)
  BY LedgerStep
<1> QED
  BY <1>1, <1>2, Invariant, PTL DEF Spec, LedgerSpec, Ledger!Spec
===============================================================================
