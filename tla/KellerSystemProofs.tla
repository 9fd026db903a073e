------------------------- MODULE KellerSystemProofs -------------------------
(* Proofs about the whole installation, from what is proved of its parts:  *)
(* for any number of clients and helpers, any levels, limits and delays.   *)
(* (S2LFlags is extended because the server's proofs speak of it as well.) *)
EXTENDS KellerSystem, S2LFlags, SequenceTheorems, TLAPS

ServerFacts == INSTANCE LedServerProofs WITH pc <- clientPc
LightFacts  == INSTANCE LightControllerProofs WITH pc <- loopPc, Levels <- 0 .. MaxLevel

-----------------------------------------------------------------------------
(* The parts as their proofs see them: the assumptions hold here, and the  *)
(* definitions are the ones that the system is composed of.                *)
LEMMA ServerAssumed == ServerFacts!ServerAssumption /\ ServerFacts!ClientsAssumption
PROOF
<1>1. Server!Helpers = ServerFacts!Helpers /\ Server!Levels = ServerFacts!Levels
  BY DEF Server!Helpers, ServerFacts!Helpers, Server!Levels, ServerFacts!Levels
<1>2. Server!Request = ServerFacts!Request
  BY DEF Server!Request, ServerFacts!Request
<1>3. IsFiniteSet(Clients) <=> ServerFacts!IsFiniteSet(Clients)
  BY DEF IsFiniteSet, ServerFacts!IsFiniteSet
<1> QED
  BY <1>1, <1>2, <1>3, SystemAssumption

LEMMA LightAssumed == LightFacts!LightAssumption
PROOF
<1>1. Light!Packet = LightFacts!Packet
  BY DEF Light!Packet, LightFacts!Packet, Light!Modes, LightFacts!Modes, Light!Other,
         LightFacts!Other
<1>2. Server!Levels = 0 .. MaxLevel
  BY DEF Server!Levels
<1> QED
  BY <1>1, <1>2, SystemAssumption

(* A step of the server.                                                   *)
LEMMA SameCall ==
  ASSUME NEW c, NEW r
  PROVE  Server!Call(c, r) <=> ServerFacts!Call(c, r)
PROOF
  BY DEF
      Server!Call, ServerFacts!Call, Server!NewHelper, ServerFacts!NewHelper,
      Server!UseHelper, ServerFacts!UseHelper, Server!CallSetBrightness,
      ServerFacts!CallSetBrightness, Server!Clip, ServerFacts!Clip,
      Server!CurrentKind, ServerFacts!CurrentKind, Server!Goto, ServerFacts!Goto,
      Server!Helpers, ServerFacts!Helpers, Server!portVars, ServerFacts!portVars,
      Server!sendVars, ServerFacts!sendVars

LEMMA SameEnter ==
  ASSUME NEW c
  PROVE  Server!Enter(c) <=> ServerFacts!Enter(c)
PROOF
  BY DEF
      Server!Enter, ServerFacts!Enter, Server!EnterSend, ServerFacts!EnterSend,
      Server!EnterSetHelper, ServerFacts!EnterSetHelper, Server!clientVars,
      ServerFacts!clientVars, Server!helperVars, ServerFacts!helperVars,
      Server!portVars, ServerFacts!portVars, Server!sendVars, ServerFacts!sendVars,
      Server!Move, ServerFacts!Move, Server!Goto, ServerFacts!Goto

LEMMA SameProceed ==
  ASSUME NEW c
  PROVE  Server!Proceed(c) <=> ServerFacts!Proceed(c)
PROOF
<1>1. Server!Cast(c) <=> ServerFacts!Cast(c)
  BY DEF
      Server!Cast, ServerFacts!Cast, Server!CurrentKind, ServerFacts!CurrentKind,
      Server!Goto, ServerFacts!Goto, Server!Move, ServerFacts!Move, Server!Finish,
      ServerFacts!Finish, Server!helperVars, ServerFacts!helperVars,
      Server!portVars, ServerFacts!portVars, Server!sendVars, ServerFacts!sendVars
<1>2. Server!Check(c) <=> ServerFacts!Check(c)
  BY DEF
      Server!Check, ServerFacts!Check, Server!SettingBrightness,
      ServerFacts!SettingBrightness, Server!Goto, ServerFacts!Goto, Server!Move,
      ServerFacts!Move, Server!Finish, ServerFacts!Finish, Server!helperVars,
      ServerFacts!helperVars, Server!portVars, ServerFacts!portVars,
      Server!sendVars, ServerFacts!sendVars
<1>3. Server!Assign(c) <=> ServerFacts!Assign(c)
  BY DEF
      Server!Assign, ServerFacts!Assign, Server!Move, ServerFacts!Move, Server!Goto,
      ServerFacts!Goto, Server!helperVars, ServerFacts!helperVars, Server!portVars,
      ServerFacts!portVars, Server!sendVars, ServerFacts!sendVars
<1>4. Server!Build(c) <=> ServerFacts!Build(c)
  BY DEF
      Server!Build, ServerFacts!Build, Server!Goto, ServerFacts!Goto,
      Server!helperVars, ServerFacts!helperVars, Server!portVars,
      ServerFacts!portVars, Server!sendVars, ServerFacts!sendVars
<1>5. Server!Write(c) <=> ServerFacts!Write(c)
  BY DEF
      Server!Write, ServerFacts!Write, Server!SendPacket, ServerFacts!SendPacket,
      Server!ThrowAway, ServerFacts!ThrowAway, Server!PutOnLine,
      ServerFacts!PutOnLine, Server!Blocked, ServerFacts!Blocked, Server!Goto,
      ServerFacts!Goto, Server!Finish, ServerFacts!Finish, Server!helperVars,
      ServerFacts!helperVars, Server!portVars, ServerFacts!portVars
<1>6. Server!Terminate(c) <=> ServerFacts!Terminate(c)
  BY DEF
      Server!Terminate, ServerFacts!Terminate, Server!HasDispatcher,
      ServerFacts!HasDispatcher, Server!Move, ServerFacts!Move, Server!Goto,
      ServerFacts!Goto, Server!portVars, ServerFacts!portVars, Server!sendVars,
      ServerFacts!sendVars
<1>7. Server!Join(c) <=> ServerFacts!Join(c)
  BY DEF
      Server!Join, ServerFacts!Join, Server!Move, ServerFacts!Move, Server!Goto,
      ServerFacts!Goto, Server!helperVars, ServerFacts!helperVars, Server!portVars,
      ServerFacts!portVars, Server!sendVars, ServerFacts!sendVars
<1>8. Server!JoinTimeout(c) <=> ServerFacts!JoinTimeout(c)
  BY DEF
      Server!JoinTimeout, ServerFacts!JoinTimeout, Server!Move, ServerFacts!Move,
      Server!Goto, ServerFacts!Goto, Server!helperVars, ServerFacts!helperVars,
      Server!portVars, ServerFacts!portVars, Server!sendVars, ServerFacts!sendVars
<1>9. Server!Install(c) <=> ServerFacts!Install(c)
  BY DEF
      Server!Install, ServerFacts!Install, Server!Move, ServerFacts!Move,
      Server!Goto, ServerFacts!Goto, Server!portVars, ServerFacts!portVars,
      Server!sendVars, ServerFacts!sendVars
<1>10. Server!Start(c) <=> ServerFacts!Start(c)
  BY DEF
      Server!Start, ServerFacts!Start, Server!CurrentKind, ServerFacts!CurrentKind,
      Server!SendPacket, ServerFacts!SendPacket, Server!ThrowAway,
      ServerFacts!ThrowAway, Server!PutOnLine, ServerFacts!PutOnLine,
      Server!Blocked, ServerFacts!Blocked, Server!Goto, ServerFacts!Goto,
      Server!Move, ServerFacts!Move, Server!Finish, ServerFacts!Finish,
      Server!portVars, ServerFacts!portVars, Server!sendVars, ServerFacts!sendVars
<1> QED
  BY <1>1, <1>2, <1>3, <1>4, <1>5, <1>6, <1>7, <1>8, <1>9, <1>10
  DEF Server!Proceed, ServerFacts!Proceed

LEMMA SameDispatch ==
  ASSUME NEW h
  PROVE  Server!Dispatch(h) <=> ServerFacts!Dispatch(h)
PROOF
<1>1. Server!DispatcherRead(h) <=> ServerFacts!DispatcherRead(h)
  BY DEF
      Server!DispatcherRead, ServerFacts!DispatcherRead, Server!clientVars,
      ServerFacts!clientVars, Server!portVars, ServerFacts!portVars,
      Server!sendVars, ServerFacts!sendVars
<1>2. Server!DispatcherEnter(h) <=> ServerFacts!DispatcherEnter(h)
  BY DEF
      Server!DispatcherEnter, ServerFacts!DispatcherEnter, Server!clientVars,
      ServerFacts!clientVars, Server!portVars, ServerFacts!portVars,
      Server!sendVars, ServerFacts!sendVars
<1>3. Server!DispatcherWrite(h) <=> ServerFacts!DispatcherWrite(h)
  BY DEF
      Server!DispatcherWrite, ServerFacts!DispatcherWrite, Server!clientVars,
      ServerFacts!clientVars, Server!portVars, ServerFacts!portVars,
      Server!SendPacket, ServerFacts!SendPacket, Server!ThrowAway,
      ServerFacts!ThrowAway, Server!PutOnLine, ServerFacts!PutOnLine,
      Server!Blocked, ServerFacts!Blocked
<1> QED
  BY <1>1, <1>2, <1>3 DEF Server!Dispatch, ServerFacts!Dispatch

LEMMA SamePort ==
  /\ Server!Drain <=> ServerFacts!Drain
  /\ Server!Unplug <=> ServerFacts!Unplug
  /\ Server!Replug <=> ServerFacts!Replug
PROOF
  BY DEF
      Server!Drain, ServerFacts!Drain, Server!Unplug, ServerFacts!Unplug,
      Server!Replug, ServerFacts!Replug, Server!clientVars, ServerFacts!clientVars,
      Server!helperVars, ServerFacts!helperVars, Server!portVars,
      ServerFacts!portVars, Server!sendVars, ServerFacts!sendVars

LEMMA SameServer ==
  /\ Server!ServerInit <=> ServerFacts!ServerInit
  /\ Server!ServerNext <=> ServerFacts!ServerNext
  /\ Server!serverVars = ServerFacts!serverVars
PROOF
<1>1. Server!Helpers = ServerFacts!Helpers
  BY DEF Server!Helpers, ServerFacts!Helpers
<1>2. Server!ServerInit <=> ServerFacts!ServerInit
  BY <1>1 DEF Server!ServerInit, ServerFacts!ServerInit
<1>3. Server!ServerNext <=> ServerFacts!ServerNext
  BY <1>1, SameCall, SameEnter, SameProceed, SameDispatch, SamePort
  DEF Server!ServerNext, ServerFacts!ServerNext
<1>4. Server!serverVars = ServerFacts!serverVars
  BY DEF
      Server!serverVars, ServerFacts!serverVars, Server!clientVars,
      ServerFacts!clientVars, Server!helperVars, ServerFacts!helperVars,
      Server!portVars, ServerFacts!portVars, Server!sendVars, ServerFacts!sendVars
<1> QED
  BY <1>2, <1>3, <1>4

(* A step of the controller.                                               *)
LEMMA SameLoop ==
  /\ Light!FinishSetup <=> LightFacts!FinishSetup
  /\ Light!Timeouts <=> LightFacts!Timeouts
  /\ Light!Animate <=> LightFacts!Animate
  /\ Light!Handle <=> LightFacts!Handle
  /\ Light!TickIdle <=> LightFacts!TickIdle
  /\ Light!TickPartial <=> LightFacts!TickPartial
  /\ Light!OtaRestart <=> LightFacts!OtaRestart
PROOF
<1>1. Light!FinishSetup <=> LightFacts!FinishSetup
  BY DEF
      Light!FinishSetup, LightFacts!FinishSetup, Light!history, LightFacts!history
<1>2. Light!Timeouts <=> LightFacts!Timeouts
  BY DEF
      Light!Timeouts, LightFacts!Timeouts, Light!Later, LightFacts!Later,
      Light!Lengthen, LightFacts!Lengthen, Light!SilenceCap, LightFacts!SilenceCap,
      Light!AmbientDue, LightFacts!AmbientDue, Light!StrobeDue,
      LightFacts!StrobeDue, Light!None, LightFacts!None, Light!history,
      LightFacts!history
<1>3. Light!Animate <=> LightFacts!Animate
  BY DEF
      Light!Animate, LightFacts!Animate, Light!None, LightFacts!None, Light!history,
      LightFacts!history
<1>4. Light!Handle <=> LightFacts!Handle
  BY DEF
      Light!Handle, LightFacts!Handle, Light!ProcessSetBrightness,
      LightFacts!ProcessSetBrightness, Light!StartPaints, LightFacts!StartPaints,
      Light!Modes, LightFacts!Modes, Light!Later, LightFacts!Later, Light!Lengthen,
      LightFacts!Lengthen, Light!SilenceCap, LightFacts!SilenceCap
<1>5. Light!TickIdle <=> LightFacts!TickIdle
  BY DEF
      Light!TickIdle, LightFacts!TickIdle, Light!EndPass, LightFacts!EndPass,
      Light!Later, LightFacts!Later, Light!Lengthen, LightFacts!Lengthen,
      Light!SilenceCap, LightFacts!SilenceCap, Light!history, LightFacts!history
<1>6. Light!TickPartial <=> LightFacts!TickPartial
  BY DEF
      Light!TickPartial, LightFacts!TickPartial, Light!EndPass, LightFacts!EndPass,
      Light!Later, LightFacts!Later, Light!Lengthen, LightFacts!Lengthen,
      Light!SilenceCap, LightFacts!SilenceCap, Light!history, LightFacts!history
<1>7. Light!OtaRestart <=> LightFacts!OtaRestart
  BY DEF
      Light!OtaRestart, LightFacts!OtaRestart
<1> QED
  BY <1>1, <1>2, <1>3, <1>4, <1>5, <1>6, <1>7

LEMMA SameTick ==
  ASSUME NEW p
  PROVE  Light!TickComplete(p) <=> LightFacts!TickComplete(p)
PROOF
  BY DEF
      Light!TickComplete, LightFacts!TickComplete, Light!Modes, LightFacts!Modes

LEMMA SamePackets == Light!Packet = LightFacts!Packet /\ Light!Modes = LightFacts!Modes
PROOF
  BY DEF
      Light!Packet, LightFacts!Packet, Light!Modes, LightFacts!Modes, Light!Other,
      LightFacts!Other

(* What the system does to its server and to its controller are steps of   *)
(* theirs.                                                                 *)
LEMMA ServerMoves ==
  ASSUME [SystemNext]_systemVars
  PROVE  [ServerFacts!ServerNext]_(ServerFacts!serverVars)
PROOF
<1>1. UNCHANGED serverVars => UNCHANGED ServerFacts!serverVars
  BY DEF serverVars, ServerFacts!serverVars, ServerFacts!clientVars,
         ServerFacts!helperVars, ServerFacts!portVars, ServerFacts!sendVars
<1>2. ServerStep(Requests) \/ Drain \/ Unplug => Server!ServerNext
  BY DEF ServerStep, Drain, Unplug, Server!ServerNext
<1>3. LightStep \/ Restart \/ UNCHANGED systemVars => UNCHANGED serverVars
  BY DEF LightStep, Restart, systemVars
<1> QED
  BY <1>1, <1>2, <1>3, SameServer DEF SystemNext

(* The system's server behaves as LedServer describes it: everything that  *)
(* is proved of the server alone holds in the installation.                *)
THEOREM SystemRunsServer == SystemSpec => Server!ServerSpec
PROOF
<1>1. SystemInit => Server!ServerInit
  BY DEF SystemInit
<1>2. UNCHANGED ServerFacts!serverVars => UNCHANGED Server!serverVars
  BY DEF Server!serverVars, ServerFacts!serverVars, Server!clientVars,
         ServerFacts!clientVars, Server!helperVars, ServerFacts!helperVars,
         Server!portVars, ServerFacts!portVars, Server!sendVars, ServerFacts!sendVars
<1>3. [SystemNext]_systemVars => [Server!ServerNext]_(Server!serverVars)
  BY <1>2, ServerMoves, SameServer
<1> QED
  BY <1>1, <1>3, PTL DEF SystemSpec, Server!ServerSpec

LEMMA ServerHolds ==
  SystemSpec => [](/\ ServerFacts!ServerInv /\ ServerFacts!HelpersInv
                   /\ ServerFacts!ModeInv
                   /\ ServerFacts!ModeOnLine /\ ServerFacts!BrightnessOnLine)
PROOF
<1>1. SystemInit => ServerFacts!ServerInit
  BY SameServer DEF SystemInit
<1>2. [SystemNext]_systemVars => [ServerFacts!ServerNext]_(ServerFacts!serverVars)
  BY ServerMoves
<1>3. SystemSpec => ServerFacts!ServerSpec
  BY <1>1, <1>2, PTL DEF SystemSpec, ServerFacts!ServerSpec
<1>4. /\ ServerFacts!ServerSpec => []ServerFacts!ServerInv
      /\ ServerFacts!ServerSpec => []ServerFacts!HelpersInv
      /\ ServerFacts!ServerSpec => []ServerFacts!ModeInv
      /\ ServerFacts!ServerSpec => []ServerFacts!ModeOnLine
      /\ ServerFacts!ServerSpec => []ServerFacts!BrightnessOnLine
  BY ServerAssumed, ServerFacts!ServerInvariant, ServerFacts!HelpersInvariant,
     ServerFacts!ModeInvariant, ServerFacts!CurrentHelperOnLine,
     ServerFacts!RememberedBrightnessOnLine
<1> QED
  BY <1>3, <1>4, PTL

-----------------------------------------------------------------------------
(* The packets on the line that carry an order of one sort, the set K, are *)
(* up to date when the last of them is one of the packets V; when there is *)
(* none, the controller must know already.                                 *)
NoneIn(s, K) == \A i \in 1 .. Len(s) : s[i] \notin K

LastIn(s, K, V) ==
  \A i \in 1 .. Len(s) :
    s[i] \in K /\ (\A j \in i + 1 .. Len(s) : s[j] \notin K) => s[i] \in V

UpToDate(s, K, V, known) == LastIn(s, K, V) /\ (NoneIn(s, K) => known)

LEMMA AppendedOrder ==
  ASSUME NEW S, NEW s \in Seq(S), NEW p \in S, NEW K, NEW V, NEW known,
         \/ p \in K /\ p \in V
         \/ p \notin K /\ UpToDate(s, K, V, known)
  PROVE  UpToDate(Append(s, p), K, V, known)
PROOF
<1> DEFINE t == Append(s, p)
<1>1. /\ Len(s) \in Nat /\ Len(t) = Len(s) + 1
      /\ \A i \in 1 .. Len(s) : t[i] = s[i]
      /\ t[Len(s) + 1] = p
  BY AppendProperties
<1> HIDE DEF t
<1>2. LastIn(t, K, V)
  <2> SUFFICES ASSUME NEW i \in 1 .. Len(t), t[i] \in K,
                      \A j \in i + 1 .. Len(t) : t[j] \notin K
               PROVE  t[i] \in V
    BY DEF LastIn
  <2>1. CASE i = Len(s) + 1
    BY <1>1, <2>1
  <2>2. CASE i # Len(s) + 1
    <3>1. i \in 1 .. Len(s) /\ Len(t) \in i + 1 .. Len(t)
      BY <1>1, <2>2
    <3>2. p \notin K
      BY <1>1, <3>1
    <3>3. \A j \in i + 1 .. Len(s) : s[j] \notin K
      BY <1>1, <3>1
    <3> QED
      BY <1>1, <3>1, <3>2, <3>3 DEF UpToDate, LastIn
  <2> QED
    BY <2>1, <2>2
<1>3. NoneIn(t, K) => known
  <2> SUFFICES ASSUME NoneIn(t, K) PROVE known
    OBVIOUS
  <2>1. p \notin K
    BY <1>1 DEF NoneIn
  <2>2. NoneIn(s, K)
    BY <1>1 DEF NoneIn
  <2> QED
    BY <2>1, <2>2 DEF UpToDate
<1> QED
  BY <1>2, <1>3 DEF UpToDate, t

LEMMA TakenOrder ==
  ASSUME NEW S, NEW s \in Seq(S), s # << >>, NEW K, NEW V, NEW known, NEW now,
         UpToDate(s, K, V, known),
         Head(s) \in K /\ Head(s) \in V => now,
         Head(s) \notin K /\ known => now
  PROVE  UpToDate(Tail(s), K, V, now)
PROOF
<1> DEFINE t == Tail(s)
<1>1. /\ Len(s) \in Nat \ {0} /\ Len(t) = Len(s) - 1
      /\ \A i \in 1 .. Len(t) : t[i] = s[i + 1]
      /\ Head(s) = s[1]
  BY HeadTailProperties
<1> HIDE DEF t
<1>2. LastIn(t, K, V)
  <2> SUFFICES ASSUME NEW i \in 1 .. Len(t), t[i] \in K,
                      \A j \in i + 1 .. Len(t) : t[j] \notin K
               PROVE  t[i] \in V
    BY DEF LastIn
  <2>1. i + 1 \in 1 .. Len(s) /\ s[i + 1] \in K
    BY <1>1
  <2>2. ASSUME NEW j \in i + 2 .. Len(s) PROVE s[j] \notin K
    <3>1. j - 1 \in i + 1 .. Len(t) /\ (j - 1) + 1 = j /\ j - 1 \in 1 .. Len(t)
      BY <1>1
    <3> QED
      BY <1>1, <3>1
  <2>3. s[i + 1] \in V
    BY <2>1, <2>2 DEF UpToDate, LastIn
  <2> QED
    BY <1>1, <2>3
<1>3. NoneIn(t, K) => now
  <2> SUFFICES ASSUME NoneIn(t, K) PROVE now
    OBVIOUS
  <2>1. \A j \in 2 .. Len(s) : s[j] \notin K
    <3> SUFFICES ASSUME NEW j \in 2 .. Len(s) PROVE s[j] \notin K
      OBVIOUS
    <3>1. j - 1 \in 1 .. Len(t) /\ (j - 1) + 1 = j
      BY <1>1
    <3> QED
      BY <1>1, <3>1 DEF NoneIn
  <2>2. CASE s[1] \in K
    <3>1. s[1] \in V
      BY <1>1, <2>1, <2>2 DEF UpToDate, LastIn
    <3> QED
      BY <1>1, <2>2, <3>1
  <2>3. CASE s[1] \notin K
    <3>1. NoneIn(s, K)
      BY <1>1, <2>1, <2>3 DEF NoneIn
    <3> QED
      BY <1>1, <2>3, <3>1 DEF UpToDate
  <2> QED
    BY <2>2, <2>3
<1> QED
  BY <1>2, <1>3 DEF UpToDate, t

ModePackets  == { p \in Light!Packet : p.type \in Light!Modes }
LevelPackets == { p \in Light!Packet : p.type = "SET_BRIGHTNESS" /\ p.content # Unusable }

ShowsMode(m)  == { p \in ModePackets : p.type = m }
SetsLevel(l)  == { p \in LevelPackets : p.content = l }

LineTypeOK ==
  /\ line \in Seq(Light!Packet) /\ awaiting \in 0 .. Len(line) /\ disturbed \in BOOLEAN

(* The last packets on the line are those that the server believes to have *)
(* been the last, and the controller has taken note of the ones before.    *)
LastHelperKnown ==
  lastHelper # 0 => lastHelper \in Server!Helpers /\ kindOf[lastHelper] # "unborn"

ModesUpToDate ==
  ~disturbed /\ lastHelper # 0 =>
    LET m == ModeOf(kindOf[lastHelper])
    IN  UpToDate(line, ModePackets, ShowsMode(m), wanted = m)

LevelsUpToDate ==
  ~disturbed /\ lastLevel # NoLevel =>
    UpToDate(line, LevelPackets, SetsLevel(lastLevel), ordered = lastLevel)

(* The inductive invariant, on top of what is known of the server.         *)
SystemInv ==
  /\ LightFacts!LightInv
  /\ LineTypeOK
  /\ LastHelperKnown
  /\ ModesUpToDate
  /\ LevelsUpToDate

ServerHeld ==
  ServerFacts!ServerInv /\ ServerFacts!HelpersInv /\ ServerFacts!ModeInv

(* The packet of the monitor's owner is what the server makes a note of.   *)
NotesPacket(p) ==
  /\ p \in Light!Packet
  /\ \/ p \notin ModePackets /\ lastHelper' = lastHelper
     \/ /\ lastHelper' \in Server!Helpers /\ kindOf[lastHelper'] # "unborn"
        /\ p \in ShowsMode(ModeOf(kindOf[lastHelper']))
  /\ \/ p \notin LevelPackets /\ lastLevel' = lastLevel
     \/ lastLevel' \in Server!Levels /\ p \in SetsLevel(lastLevel')

LEMMA PacketsDiffer ==
  /\ \A m \in Light!Modes :
       PacketOf(m, DefaultLevel) \in ShowsMode(m) \ LevelPackets
  /\ \A l \in Server!Levels :
       PacketOf("SET_BRIGHTNESS", l) \in SetsLevel(l) \ ModePackets
  /\ PacketOf("FREEZE_FRAME", DefaultLevel)
       \in Light!Packet \ (LevelPackets \cup ModePackets)
PROOF
  BY SystemAssumption
  DEF PacketOf, ModePackets, LevelPackets, ShowsMode, SetsLevel, Light!Packet, Light!Modes,
      Light!Other, Server!Levels

LEMMA OutgoingNoted ==
  ASSUME ServerFacts!ServerInv, ServerFacts!PacketAnnounced
  PROVE  NotesPacket(Outgoing)
PROOF
<1>1. /\ Server!Helpers = ServerFacts!Helpers /\ Server!Levels = ServerFacts!Levels
      /\ Clients \cap Server!Helpers = {}
      /\ kindOf \in [Server!Helpers -> ServerFacts!Kinds \cup { "unborn" }]
  BY SystemAssumption
  DEF Server!Helpers, ServerFacts!Helpers, Server!Levels, ServerFacts!Levels,
      ServerFacts!ServerInv, ServerFacts!ServerTypeOK, ServerFacts!HelpersTypeOK
<1>2. ASSUME NEW c \in Clients, ServerFacts!WriterAnnounced(c)
      PROVE  NotesPacket(Outgoing)
  <2>1. monitor = c /\ monitor \in Clients /\ clientPc[monitor] = "write"
    BY <1>2 DEF ServerFacts!WriterAnnounced
  <2>2. CASE /\ todo[c] = "brightness" /\ level[c] \in Server!Levels
             /\ lastLevel' = level[c] /\ lastHelper' = lastHelper
    <3>1. Outgoing = PacketOf("SET_BRIGHTNESS", level[c])
      BY <2>1, <2>2 DEF Outgoing
    <3> QED
      BY <2>2, <3>1, PacketsDiffer DEF NotesPacket, SetsLevel, LevelPackets
  <2>3. CASE todo[c] = "freeze" /\ UNCHANGED << lastHelper, lastLevel >>
    <3>1. Outgoing = PacketOf("FREEZE_FRAME", DefaultLevel)
      BY <2>1, <2>3 DEF Outgoing
    <3> QED
      BY <2>3, <3>1, PacketsDiffer DEF NotesPacket
  <2>4. CASE /\ todo[c] \in { "COLOR", "GAME" }
             /\ mine[c] \in Server!Helpers /\ kindOf[mine[c]] = todo[c]
             /\ lastHelper' = mine[c] /\ lastLevel' = lastLevel
    <3>1. Outgoing = PacketOf("RAW", DefaultLevel)
      BY <2>1, <2>4 DEF Outgoing
    <3>2. ModeOf(kindOf[lastHelper']) = "RAW" /\ "RAW" \in Light!Modes
          /\ kindOf[lastHelper'] # "unborn"
      BY <2>4 DEF ModeOf, Light!Modes
    <3> QED
      BY <2>4, <3>1, <3>2, PacketsDiffer DEF NotesPacket, ShowsMode, ModePackets
  <2> QED
    BY <1>1, <1>2, <2>2, <2>3, <2>4 DEF ServerFacts!WriterAnnounced
<1>3. ASSUME NEW c \in Clients, ServerFacts!StarterAnnounced(c)
      PROVE  NotesPacket(Outgoing)
  <2>1. /\ monitor = c /\ monitor \in Clients /\ clientPc[monitor] # "write"
        /\ currentHelper \in Server!Helpers
        /\ kindOf[currentHelper] \in { "AMBIENT", "STROBE", "COLOR" }
        /\ lastHelper' = currentHelper /\ lastLevel' = lastLevel
    BY <1>1, <1>3 DEF ServerFacts!StarterAnnounced
  <2>2. Outgoing = PacketOf(ModeOf(kindOf[currentHelper]), DefaultLevel)
    BY <2>1 DEF Outgoing
  <2>3. ModeOf(kindOf[currentHelper]) \in Light!Modes
    BY <2>1 DEF ModeOf, Light!Modes
  <2> QED
    BY <2>1, <2>2, <2>3, PacketsDiffer DEF NotesPacket, ShowsMode, ModePackets
<1>4. ASSUME NEW h \in Server!Helpers, ServerFacts!AudioAnnounced(h)
      PROVE  NotesPacket(Outgoing)
  <2>1. /\ monitor = h /\ monitor \notin Clients /\ kindOf[h] = "S2L"
        /\ lastHelper' = h /\ lastLevel' = lastLevel
    BY <1>1, <1>4 DEF ServerFacts!AudioAnnounced
  <2>2. Outgoing = PacketOf("S2L", DefaultLevel)
    BY <2>1 DEF Outgoing
  <2>3. ModeOf(kindOf[lastHelper']) = "S2L" /\ "S2L" \in Light!Modes
    BY <2>1 DEF ModeOf, Light!Modes
  <2> QED
    BY <2>1, <2>2, <2>3, PacketsDiffer DEF NotesPacket, ShowsMode, ModePackets
<1> QED
  BY <1>1, <1>2, <1>3, <1>4 DEF ServerFacts!PacketAnnounced

-----------------------------------------------------------------------------
LEMMA CutSequence ==
  ASSUME NEW S, NEW s \in Seq(S), NEW k \in 0 .. Len(s)
  PROVE  /\ SubSeq(s, 1, k) \in Seq(S) /\ Len(SubSeq(s, 1, k)) = k
         /\ \A i \in 1 .. k : SubSeq(s, 1, k)[i] = s[i]
         /\ SubSeq(s, k + 1, Len(s)) \in Seq(S)
         /\ Len(SubSeq(s, k + 1, Len(s))) = Len(s) - k
         /\ \A i \in 1 .. Len(s) - k : SubSeq(s, k + 1, Len(s))[i] = s[k + i]
PROOF
<1>1. Len(s) \in Nat /\ \A i \in 1 .. Len(s) : s[i] \in S
  BY ElementOfSeq
<1>2. \A i \in 1 .. k : s[i] \in S
  BY <1>1
<1>3. \A i \in k + 1 .. Len(s) : s[i] \in S
  BY <1>1
<1>4. /\ SubSeq(s, 1, k) \in Seq(S)
      /\ Len(SubSeq(s, 1, k)) = IF 1 <= k THEN k - 1 + 1 ELSE 0
      /\ \A i \in 1 .. k - 1 + 1 : SubSeq(s, 1, k)[i] = s[1 + i - 1]
  BY <1>1, <1>2, SubSeqProperties
<1>5. /\ SubSeq(s, k + 1, Len(s)) \in Seq(S)
      /\ Len(SubSeq(s, k + 1, Len(s))) =
           IF k + 1 <= Len(s) THEN Len(s) - (k + 1) + 1 ELSE 0
      /\ \A i \in 1 .. Len(s) - (k + 1) + 1 :
           SubSeq(s, k + 1, Len(s))[i] = s[(k + 1) + i - 1]
  BY <1>1, <1>3, SubSeqProperties
<1>6. k - 1 + 1 = k /\ Len(s) - (k + 1) + 1 = Len(s) - k /\ k \in Nat
  BY <1>1
<1>7. (IF 1 <= k THEN k - 1 + 1 ELSE 0) = k
      /\ (IF k + 1 <= Len(s) THEN Len(s) - (k + 1) + 1 ELSE 0) = Len(s) - k
  BY <1>1
<1>8. \A i \in 1 .. k : 1 + i - 1 = i
  OBVIOUS
<1>9. \A i \in 1 .. Len(s) - k : (k + 1) + i - 1 = k + i
  BY <1>6
<1> QED
  BY <1>4, <1>5, <1>6, <1>7, <1>8, <1>9

LEMMA RemovedElement ==
  ASSUME NEW S, NEW s \in Seq(S), NEW k \in 1 .. Len(s)
  PROVE  /\ RemoveAt(s, k) \in Seq(S) /\ Len(RemoveAt(s, k)) = Len(s) - 1
         /\ \A i \in 1 .. Len(s) - 1 :
              RemoveAt(s, k)[i] = IF i < k THEN s[i] ELSE s[i + 1]
PROOF
<1> DEFINE a == SubSeq(s, 1, k - 1)
           b == SubSeq(s, k + 1, Len(s))
<1>1. Len(s) \in Nat /\ k - 1 \in 0 .. Len(s) /\ k \in 0 .. Len(s)
  OBVIOUS
<1>2. /\ a \in Seq(S) /\ Len(a) = k - 1
      /\ \A i \in 1 .. k - 1 : a[i] = s[i]
  BY <1>1, CutSequence
<1>3. /\ b \in Seq(S) /\ Len(b) = Len(s) - k
      /\ \A i \in 1 .. Len(s) - k : b[i] = s[k + i]
  BY <1>1, CutSequence
<1>4. RemoveAt(s, k) = a \o b
  BY DEF RemoveAt
<1> HIDE DEF a, b
<1>5. /\ (a \o b) \in Seq(S) /\ Len(a \o b) = Len(a) + Len(b)
      /\ \A i \in 1 .. Len(a) + Len(b) :
           (a \o b)[i] = IF i <= Len(a) THEN a[i] ELSE b[i - Len(a)]
  BY <1>2, <1>3, ConcatProperties
<1>6. Len(a) + Len(b) = Len(s) - 1
  BY <1>1, <1>2, <1>3
<1>7. ASSUME NEW i \in 1 .. Len(s) - 1
      PROVE  (a \o b)[i] = IF i < k THEN s[i] ELSE s[i + 1]
  <2>1. CASE i < k
    <3>1. i <= Len(a) /\ i \in 1 .. k - 1
      BY <1>1, <1>2, <2>1
    <3> QED
      BY <1>2, <1>5, <1>6, <2>1, <3>1
  <2>2. CASE ~(i < k)
    <3>1. ~(i <= Len(a)) /\ i - Len(a) \in 1 .. Len(s) - k
      BY <1>1, <1>2, <2>2
    <3>2. k + (i - Len(a)) = i + 1
      BY <1>1, <1>2
    <3>3. b[i - Len(a)] = s[i + 1]
      BY <1>3, <3>1, <3>2
    <3> QED
      BY <1>5, <1>6, <2>2, <3>1, <3>3
  <2> QED
    BY <2>1, <2>2
<1> QED
  BY <1>4, <1>5, <1>6, <1>7

-----------------------------------------------------------------------------
LEMMA LoopUntouched ==
  ASSUME LightFacts!LightInv, UNCHANGED lightVars
  PROVE  LightFacts!LightInv'
PROOF
<1>1. UNCHANGED LightFacts!lightVars
  BY DEF lightVars, LightFacts!lightVars
<1> QED
  BY <1>1, LightAssumed, LightFacts!LightStepKeepsInv

(* No packet is taken up or written.                                       *)
LEMMA OrdersUntouched ==
  ASSUME ModesUpToDate, LevelsUpToDate, LastHelperKnown,
         UNCHANGED << line, disturbed, wanted, ordered, lastHelper, lastLevel >>,
         \A h \in Server!Helpers : kindOf[h] # "unborn" => kindOf'[h] = kindOf[h]
  PROVE  ModesUpToDate' /\ LevelsUpToDate' /\ LastHelperKnown'
PROOF
<1>1. lastHelper # 0 => kindOf'[lastHelper] = kindOf[lastHelper]
  BY DEF LastHelperKnown
<1>2. ModesUpToDate'
  BY <1>1 DEF ModesUpToDate, UpToDate, LastIn, NoneIn, ModeOf, ShowsMode
<1>3. LevelsUpToDate'
  BY DEF LevelsUpToDate, UpToDate, LastIn, NoneIn, SetsLevel
<1> QED
  BY <1>1, <1>2, <1>3 DEF LastHelperKnown

LEMMA ServerStepKeeps ==
  ASSUME SystemInv, ServerHeld, ServerHeld', ServerStep(Requests)
  PROVE  SystemInv'
PROOF
<1>1. LightFacts!LightInv' /\ UNCHANGED << disturbed, wanted, ordered >>
  BY LoopUntouched DEF SystemInv, ServerStep, lightVars
<1>2. ServerFacts!ServerNext
  <2>1. Server!ServerNext
    BY DEF ServerStep, Server!ServerNext
  <2> QED
    BY <2>1, SameServer
<1>3. /\ ServerFacts!HelpersTypeOK /\ awaiting \in Nat /\ ServerFacts!StartInstalled
      /\ Server!Helpers = ServerFacts!Helpers
  BY DEF ServerHeld, ServerFacts!ServerInv, ServerFacts!ServerTypeOK,
         ServerFacts!SendTypeOK, ServerFacts!ModeInv, Server!Helpers, ServerFacts!Helpers
<1>4. \A h \in Server!Helpers : kindOf[h] # "unborn" => kindOf'[h] = kindOf[h]
  BY <1>2, <1>3, ServerAssumed, ServerFacts!KindsStay
<1>5. \/ awaiting' <= awaiting /\ UNCHANGED << lastHelper, lastLevel >>
      \/ awaiting' = awaiting + 1 /\ UNCHANGED kindOf /\ ServerFacts!PacketAnnounced
  BY <1>2, <1>3, ServerAssumed, ServerFacts!PacketsAreAnnounced DEF ServerHeld
<1>6. CASE awaiting' <= awaiting /\ UNCHANGED << lastHelper, lastLevel >>
  <2>1. awaiting' \in Nat
    BY DEF ServerHeld, ServerFacts!ServerInv, ServerFacts!ServerTypeOK,
           ServerFacts!SendTypeOK
  <2>2. ~(awaiting' > awaiting)
    BY <1>3, <1>6, <2>1
  <2>3. UNCHANGED line
    BY <2>2 DEF ServerStep
  <2>4. LineTypeOK'
    <3>1. Len(line) \in Nat /\ awaiting \in 0 .. Len(line)
      BY DEF SystemInv, LineTypeOK
    <3>2. awaiting' \in 0 .. Len(line)
      BY <1>6, <2>1, <3>1
    <3> QED
      BY <1>1, <2>3, <3>2 DEF SystemInv, LineTypeOK
  <2> QED
    BY <1>1, <1>4, <1>6, <2>3, <2>4, OrdersUntouched DEF SystemInv
<1>7. CASE awaiting' = awaiting + 1 /\ UNCHANGED kindOf /\ ServerFacts!PacketAnnounced
  <2>1. NotesPacket(Outgoing)
    BY <1>7, OutgoingNoted DEF ServerHeld
  <2>2. line' = Append(line, Outgoing)
    <3>1. awaiting' > awaiting
      BY <1>3, <1>7
    <3> QED
      BY <3>1 DEF ServerStep, Written
  <2> DEFINE p == Outgoing
  <2>3. line \in Seq(Light!Packet) /\ p \in Light!Packet
    BY <2>1 DEF SystemInv, LineTypeOK, NotesPacket
  <2>4. LineTypeOK'
    <3>1. line' \in Seq(Light!Packet) /\ Len(line') = Len(line) + 1
      BY <2>2, <2>3, AppendProperties
    <3>2. awaiting \in 0 .. Len(line) /\ disturbed \in BOOLEAN /\ Len(line) \in Nat
      BY <2>3 DEF SystemInv, LineTypeOK
    <3>3. awaiting' \in 0 .. Len(line')
      BY <1>7, <3>1, <3>2
    <3> QED
      BY <1>1, <3>1, <3>2, <3>3 DEF LineTypeOK
  <2> HIDE DEF p
  <2>5. p \in ShowsMode(ModeOf(kindOf[lastHelper'])) => p \in ModePackets
    BY DEF ShowsMode
  <2>6. p \in SetsLevel(lastLevel') => p \in LevelPackets
    BY DEF SetsLevel
  <2>7. /\ \/ p \notin ModePackets /\ lastHelper' = lastHelper
           \/ /\ lastHelper' \in Server!Helpers /\ kindOf[lastHelper'] # "unborn"
              /\ p \in ShowsMode(ModeOf(kindOf[lastHelper']))
        /\ \/ p \notin LevelPackets /\ lastLevel' = lastLevel
           \/ p \in SetsLevel(lastLevel')
    BY <2>1 DEF NotesPacket, p
  <2>8. LastHelperKnown'
    BY <1>7, <2>7 DEF SystemInv, LastHelperKnown
  <2>9. ModesUpToDate'
    <3> SUFFICES ASSUME ~disturbed', lastHelper' # 0
                 PROVE  LET m == ModeOf(kindOf[lastHelper'])
                        IN  UpToDate(line', ModePackets, ShowsMode(m), wanted = m)
      BY <1>1, <1>7 DEF ModesUpToDate, ModeOf, UpToDate, ShowsMode
    <3> DEFINE m == ModeOf(kindOf[lastHelper'])
    <3>1. \/ p \in ModePackets /\ p \in ShowsMode(m)
          \/ p \notin ModePackets /\ UpToDate(line, ModePackets, ShowsMode(m), wanted = m)
      BY <1>1, <2>5, <2>7 DEF SystemInv, ModesUpToDate
    <3> HIDE DEF m
    <3>2. UpToDate(Append(line, p), ModePackets, ShowsMode(m), wanted = m)
      BY <2>3, <3>1, AppendedOrder
    <3> QED
      BY <2>2, <3>2 DEF m, p
  <2>10. LevelsUpToDate'
    <3> SUFFICES ASSUME ~disturbed', lastLevel' # NoLevel
                 PROVE  UpToDate(line', LevelPackets, SetsLevel(lastLevel'), ordered = lastLevel')
      BY <1>1 DEF LevelsUpToDate, UpToDate, SetsLevel
    <3> DEFINE l == lastLevel'
    <3>1. \/ p \in LevelPackets /\ p \in SetsLevel(l)
          \/ p \notin LevelPackets /\ UpToDate(line, LevelPackets, SetsLevel(l), ordered = l)
      BY <1>1, <2>6, <2>7 DEF SystemInv, LevelsUpToDate
    <3> HIDE DEF l
    <3>2. UpToDate(Append(line, p), LevelPackets, SetsLevel(l), ordered = l)
      BY <2>3, <3>1, AppendedOrder
    <3> QED
      BY <2>2, <3>2 DEF l, p
  <2> QED
    BY <1>1, <2>4, <2>8, <2>9, <2>10 DEF SystemInv
<1> QED
  BY <1>5, <1>6, <1>7

LEMMA OrdersForgotten ==
  ASSUME LastHelperKnown, UNCHANGED << lastHelper, kindOf >>, disturbed' = TRUE
  PROVE  ModesUpToDate' /\ LevelsUpToDate' /\ LastHelperKnown'
PROOF
  BY DEF ModesUpToDate, LevelsUpToDate, LastHelperKnown

LEMMA PortStepKeeps ==
  ASSUME SystemInv, Drain \/ Unplug
  PROVE  SystemInv'
PROOF
<1>1. LightFacts!LightInv' /\ UNCHANGED << wanted, ordered >>
  BY LoopUntouched DEF SystemInv, Drain, Unplug, lightVars
<1>2. UNCHANGED << kindOf, lastHelper, lastLevel >>
  BY DEF Drain, Unplug, Server!Drain, Server!Unplug, Server!helperVars
<1>3. /\ line \in Seq(Light!Packet) /\ Len(line) \in Nat
      /\ awaiting \in 0 .. Len(line) /\ disturbed \in BOOLEAN
      /\ LastHelperKnown
  BY DEF SystemInv, LineTypeOK
<1>4. CASE UNCHANGED << line, disturbed >> /\ awaiting' \in 0 .. awaiting
  <2>1. LineTypeOK'
    BY <1>3, <1>4 DEF LineTypeOK
  <2> QED
    BY <1>1, <1>2, <1>4, <2>1, OrdersUntouched DEF SystemInv
<1>5. CASE /\ line' \in Seq(Light!Packet) /\ awaiting' \in 0 .. Len(line')
           /\ disturbed' = TRUE
  BY <1>1, <1>2, <1>3, <1>5, OrdersForgotten DEF SystemInv, LineTypeOK
<1>6. CASE Drain
  <2>1. awaiting > 0 /\ awaiting' = awaiting - 1
    BY <1>6 DEF Drain, Server!Drain
  <2>2. awaiting' \in 0 .. awaiting /\ awaiting' \in 0 .. Len(line) - 1
    BY <1>3, <2>1
  <2>3. CASE OnWire < MaxWire
    BY <1>4, <1>6, <2>2, <2>3 DEF Drain
  <2>4. CASE ~(OnWire < MaxWire)
    <3>1. line' = RemoveAt(line, OnWire + 1) /\ disturbed' = TRUE
      BY <1>6, <2>4 DEF Drain
    <3>2. OnWire + 1 \in 1 .. Len(line)
      BY <1>3, <2>1 DEF OnWire
    <3>3. line' \in Seq(Light!Packet) /\ Len(line') = Len(line) - 1
      BY <1>3, <3>1, <3>2, RemovedElement
    <3> QED
      BY <1>5, <2>2, <3>1, <3>3
  <2> QED
    BY <2>3, <2>4
<1>7. CASE Unplug
  <2>1. /\ awaiting' = 0 /\ line' = SubSeq(line, 1, OnWire)
        /\ disturbed' = (disturbed \/ awaiting > 0)
    BY <1>7 DEF Unplug, Server!Unplug
  <2>2. OnWire \in 0 .. Len(line)
    BY <1>3 DEF OnWire
  <2>3. CASE awaiting = 0
    <3>1. OnWire = Len(line) /\ disturbed' = disturbed
      BY <1>3, <2>1, <2>3 DEF OnWire
    <3>2. line' = line
      BY <1>3, <2>1, <3>1, SubSeqFull
    <3> QED
      BY <1>4, <2>1, <2>3, <3>1, <3>2
  <2>4. CASE awaiting > 0
    <3>1. line' \in Seq(Light!Packet) /\ Len(line') = OnWire
      BY <1>3, <2>1, <2>2, CutSequence
    <3>2. awaiting' \in 0 .. Len(line')
      BY <2>1, <2>2, <3>1
    <3> QED
      BY <1>5, <2>1, <2>4, <3>1, <3>2
  <2> QED
    BY <1>3, <2>3, <2>4
<1> QED
  BY <1>6, <1>7

(* The controller takes packets from the front of the line only.           *)
LEMMA LightStepKeeps ==
  ASSUME SystemInv, LightStep \/ Restart
  PROVE  SystemInv'
PROOF
<1>1. UNCHANGED << kindOf, lastHelper, lastLevel, awaiting >>
  BY DEF LightStep, Restart, serverVars
<1>2. /\ line \in Seq(Light!Packet) /\ Len(line) \in Nat
      /\ awaiting \in 0 .. Len(line) /\ disturbed \in BOOLEAN
      /\ LastHelperKnown /\ LightFacts!LightInv
  BY DEF SystemInv, LineTypeOK
<1>3. OnWire > 0 => /\ line # << >>
                    /\ Head(line) \in Light!Packet /\ Tail(line) \in Seq(Light!Packet)
                    /\ awaiting \in 0 .. Len(Tail(line))
  <2> SUFFICES ASSUME OnWire > 0
               PROVE  /\ line # << >>
                      /\ Head(line) \in Light!Packet /\ Tail(line) \in Seq(Light!Packet)
                      /\ awaiting \in 0 .. Len(Tail(line))
    OBVIOUS
  <2>1. Len(line) > 0 /\ awaiting \in 0 .. Len(line) - 1
    BY <1>2 DEF OnWire
  <2>2. line # << >>
    BY <2>1
  <2>3. /\ Head(line) \in Light!Packet /\ Tail(line) \in Seq(Light!Packet)
        /\ Len(Tail(line)) = Len(line) - 1
    BY <1>2, <2>2, HeadTailProperties
  <2> QED
    BY <2>1, <2>2, <2>3
<1>4. ASSUME LightFacts!LightNext PROVE LightFacts!LightInv'
  BY <1>2, <1>4, LightAssumed, LightFacts!LightStepKeepsInv
<1>5. CASE /\ \/ Light!FinishSetup \/ Light!Timeouts \/ Light!Animate \/ Light!Handle
              \/ Light!TickIdle
           /\ UNCHANGED << line, disturbed >>
  <2>1. LightFacts!LightNext
    BY <1>5, SameLoop DEF LightFacts!LightNext, LightFacts!Pass
  <2>2. UNCHANGED << wanted, ordered >>
    BY <1>5
    DEF Light!FinishSetup, Light!Timeouts, Light!Animate, Light!Handle, Light!TickIdle,
        Light!history
  <2>3. LineTypeOK'
    BY <1>1, <1>2, <1>5 DEF LineTypeOK
  <2> QED
    BY <1>1, <1>4, <1>5, <2>1, <2>2, <2>3, OrdersUntouched DEF SystemInv
<1>6. CASE Complete
  <2> DEFINE p == Head(line)
  <2>1. /\ OnWire > 0 /\ Light!TickComplete(p) /\ line' = Tail(line)
        /\ UNCHANGED disturbed
    BY <1>6 DEF Complete
  <2>2. p \in Light!Packet
    BY <1>3, <2>1
  <2>3. LightFacts!LightInv'
    <3>1. LightFacts!TickComplete(p) /\ p \in LightFacts!Packet
      BY <2>1, <2>2, SameTick, SamePackets
    <3> QED
      BY <1>4, <3>1 DEF LightFacts!LightNext, LightFacts!Pass
  <2>4. LineTypeOK' /\ LastHelperKnown'
    BY <1>1, <1>2, <1>3, <2>1 DEF LineTypeOK, LastHelperKnown
  <2>5. /\ wanted' = IF p.type \in Light!Modes THEN p.type ELSE wanted
        /\ ordered' = IF p.type = "SET_BRIGHTNESS" /\ p.content # Unusable
                        THEN p.content ELSE ordered
    BY <2>1 DEF Light!TickComplete
  <2>6. ModesUpToDate'
    <3> DEFINE m == ModeOf(kindOf[lastHelper])
    <3> SUFFICES ASSUME ~disturbed, lastHelper # 0
                 PROVE  UpToDate(Tail(line), ModePackets, ShowsMode(m), wanted' = m)
      BY <1>1, <2>1 DEF ModesUpToDate, ModeOf, UpToDate, ShowsMode
    <3>1. UpToDate(line, ModePackets, ShowsMode(m), wanted = m)
      BY DEF SystemInv, ModesUpToDate
    <3>2. /\ p \in ModePackets /\ p \in ShowsMode(m) => wanted' = m
          /\ p \notin ModePackets /\ wanted = m => wanted' = m
      BY <2>2, <2>5 DEF ModePackets, ShowsMode
    <3> HIDE DEF m
    <3> QED
      BY <1>2, <1>3, <2>1, <3>1, <3>2, TakenOrder
  <2>7. LevelsUpToDate'
    <3> DEFINE l == lastLevel
    <3> SUFFICES ASSUME ~disturbed, lastLevel # NoLevel
                 PROVE  UpToDate(Tail(line), LevelPackets, SetsLevel(l), ordered' = l)
      BY <1>1, <2>1 DEF LevelsUpToDate, UpToDate, SetsLevel
    <3>1. UpToDate(line, LevelPackets, SetsLevel(l), ordered = l)
      BY DEF SystemInv, LevelsUpToDate
    <3>2. /\ p \in LevelPackets /\ p \in SetsLevel(l) => ordered' = l
          /\ p \notin LevelPackets /\ ordered = l => ordered' = l
      BY <2>2, <2>5 DEF LevelPackets, SetsLevel
    <3> HIDE DEF l
    <3> QED
      BY <1>2, <1>3, <2>1, <3>1, <3>2, TakenOrder
  <2> QED
    BY <2>3, <2>4, <2>6, <2>7 DEF SystemInv
<1>7. CASE Damaged
  <2>1. OnWire > 0 /\ Light!TickPartial /\ line' = Tail(line) /\ disturbed' = TRUE
    BY <1>7 DEF Damaged
  <2>2. LightFacts!LightNext
    BY <2>1, SameLoop DEF LightFacts!LightNext, LightFacts!Pass
  <2> QED
    BY <1>1, <1>2, <1>3, <1>4, <2>1, <2>2, OrdersForgotten DEF SystemInv, LineTypeOK
<1>8. CASE Restart
  <2>1. /\ LightFacts!LightNext /\ disturbed' = TRUE
        /\ line' = SubSeq(line, OnWire + 1, Len(line))
    BY <1>8, SameLoop DEF Restart, LightFacts!LightNext
  <2>2. OnWire \in 0 .. Len(line) /\ Len(line) - OnWire = awaiting
    BY <1>2 DEF OnWire
  <2>3. line' \in Seq(Light!Packet) /\ Len(line') = awaiting
    BY <1>2, <2>1, <2>2, CutSequence
  <2>4. LineTypeOK'
    BY <1>1, <1>2, <2>1, <2>3 DEF LineTypeOK
  <2> QED
    BY <1>1, <1>2, <1>4, <2>1, <2>4, OrdersForgotten DEF SystemInv
<1>9. CASE ReadPartly
  <2>1. Light!TickPartial /\ UNCHANGED << line, disturbed >>
    BY <1>9 DEF ReadPartly
  <2>2. LightFacts!LightNext
    BY <2>1, SameLoop DEF LightFacts!LightNext, LightFacts!Pass
  <2>3. UNCHANGED << wanted, ordered >>
    BY <2>1 DEF Light!TickPartial, Light!history
  <2>4. LineTypeOK'
    BY <1>1, <1>2, <2>1 DEF LineTypeOK
  <2> QED
    BY <1>1, <1>4, <2>1, <2>2, <2>3, <2>4, OrdersUntouched DEF SystemInv
<1> QED
  BY <1>5, <1>6, <1>7, <1>8, <1>9 DEF LightStep

-----------------------------------------------------------------------------
(* The inductive invariant of the installation.                            *)
THEOREM SystemInvariant == SystemSpec => []SystemInv
PROOF
<1>1. SystemInit => SystemInv
  <2> SUFFICES ASSUME SystemInit
               PROVE  SystemInv
    OBVIOUS
  <2>1. LightFacts!LightInit
    BY DEF SystemInit, Light!LightInit, LightFacts!LightInit
  <2>2. LightFacts!LightInv
    BY <2>1, LightAssumed, LightFacts!PowerUpInv
  <2>3. /\ line = << >> /\ disturbed = FALSE
        /\ awaiting = 0 /\ lastHelper = 0 /\ lastLevel = NoLevel
    BY DEF SystemInit, Server!ServerInit
  <2>4. LineTypeOK
    <3>1. << >> \in Seq(Light!Packet) /\ Len(<< >>) = 0 /\ 0 \in 0 .. 0
      OBVIOUS
    <3>2. disturbed \in BOOLEAN
      BY <2>3
    <3>3. line \in Seq(Light!Packet) /\ awaiting \in 0 .. Len(line)
      BY <2>3, <3>1
    <3> QED
      BY <3>2, <3>3 DEF LineTypeOK
  <2>5. LastHelperKnown /\ ModesUpToDate /\ LevelsUpToDate
    BY <2>3 DEF LastHelperKnown, ModesUpToDate, LevelsUpToDate
  <2> QED
    BY <2>2, <2>4, <2>5 DEF SystemInv
<1>2. SystemInv /\ ServerHeld /\ ServerHeld' /\ [SystemNext]_systemVars => SystemInv'
  <2> SUFFICES ASSUME SystemInv, ServerHeld, ServerHeld', [SystemNext]_systemVars
               PROVE  SystemInv'
    OBVIOUS
  <2>1. CASE SystemNext
    BY <2>1, ServerStepKeeps, PortStepKeeps, LightStepKeeps DEF SystemNext
  <2>2. CASE UNCHANGED systemVars
    <3>1. UNCHANGED << line, disturbed, awaiting, wanted, ordered, lastHelper, lastLevel,
                       kindOf, lightVars >>
      BY <2>2 DEF systemVars, serverVars, lightVars
    <3>2. LightFacts!LightInv' /\ LineTypeOK'
      BY <3>1, LoopUntouched DEF SystemInv, LineTypeOK
    <3> QED
      BY <3>1, <3>2, OrdersUntouched DEF SystemInv
  <2> QED
    BY <2>1, <2>2
<1>3. SystemSpec => []ServerHeld
  BY ServerHolds, PTL DEF ServerHeld
<1> QED
  BY <1>1, <1>2, <1>3, PTL DEF SystemSpec

(* At rest and undisturbed, the controller shows the mode of the server's  *)
(* current helper, for any number of clients and helpers, and whatever the *)
(* timeouts: the exceptions are a silence, a late packet of a replaced     *)
(* helper, and a helper that has had nothing to send yet.                  *)
THEOREM ModesAgreeAtRest == SystemSpec => []ModesAgree
PROOF
<1>1. SystemInv /\ ServerHeld /\ ServerFacts!ModeOnLine => ModesAgree
  <2> SUFFICES ASSUME SystemInv, ServerHeld, ServerFacts!ModeOnLine,
                      AtRest, currentHelper # 0,
                      \A h \in Server!Helpers : ~(stale[h] > 0),
                      ~(kindOf[currentHelper] \in { "S2L", "GAME" }
                          /\ lastHelper # currentHelper),
                      ~(lull > StrobeTimeout)
               PROVE  component = ModeOf(kindOf[currentHelper])
    BY DEF ModesAgree
  <2>1. \A h \in ServerFacts!Helpers : stale[h] = 0
    <3>1. stale \in [ServerFacts!Helpers -> Nat]
      BY DEF ServerHeld, ServerFacts!ServerInv, ServerFacts!ServerTypeOK,
             ServerFacts!SendTypeOK
    <3> QED
      BY <3>1 DEF Server!Helpers, ServerFacts!Helpers
  <2>2. lastHelper = currentHelper
    BY <2>1
    DEF AtRest, ServerFacts!ModeOnLine, ServerFacts!Quiet, Server!Quiet,
        ServerFacts!CurrentKind
  <2>3. wanted = ModeOf(kindOf[currentHelper])
    <3>1. NoneIn(line, ModePackets)
      BY DEF AtRest, NoneIn
    <3> QED
      BY <2>2, <3>1 DEF AtRest, SystemInv, ModesUpToDate, UpToDate
  <2>4. component = wanted
    <3>1. LightFacts!ComponentJustified /\ lull \in Nat /\ AmbientTimeout > StrobeTimeout
      BY SystemAssumption
      DEF SystemInv, LightFacts!LightInv, LightFacts!LightTypeOK, LightFacts!SilenceCap
    <3>2. StrobeTimeout \in Nat /\ AmbientTimeout \in Nat
      BY SystemAssumption
    <3>3. ~(lull > AmbientTimeout)
      BY <3>1, <3>2
    <3> QED
      BY <3>1, <3>3 DEF AtRest, LightFacts!ComponentJustified
  <2> QED
    BY <2>3, <2>4
<1>2. SystemSpec => [](ServerHeld /\ ServerFacts!ModeOnLine)
  BY ServerHolds, PTL DEF ServerHeld
<1> QED
  BY <1>1, <1>2, SystemInvariant, PTL

(* At rest and undisturbed, the controller has the brightness that the     *)
(* server remembers, unless two calls of setBrightness overlapped: so a    *)
(* level that the server takes for set already really is.                  *)
THEOREM BrightnessAgreesAtRest == SystemSpec => []BrightnessAgrees
PROOF
<1>1. SystemInv /\ ServerFacts!BrightnessOnLine => BrightnessAgrees
  <2> SUFFICES ASSUME SystemInv, ServerFacts!BrightnessOnLine,
                      AtRest, ~raced, lastLevel # NoLevel
               PROVE  brightness = ledBrightness
    BY DEF BrightnessAgrees
  <2>1. lastLevel = ledBrightness
    BY DEF AtRest, ServerFacts!BrightnessOnLine, ServerFacts!Quiet, Server!Quiet
  <2>2. ordered = lastLevel
    <3>1. NoneIn(line, LevelPackets)
      BY DEF AtRest, NoneIn
    <3> QED
      BY <3>1 DEF AtRest, SystemInv, LevelsUpToDate, UpToDate
  <2>3. brightness = ordered
    BY DEF AtRest, SystemInv, LightFacts!LightInv, LightFacts!LevelsAgree
  <2> QED
    BY <2>1, <2>2, <2>3
<1>2. SystemSpec => []ServerFacts!BrightnessOnLine
  BY ServerHolds, PTL
<1> QED
  BY <1>1, <1>2, SystemInvariant, PTL

-----------------------------------------------------------------------------
(* The packets on their way as orders: what happens to the packets happens *)
(* to the orders.                                                          *)
LEMMA OrdersOfPackets ==
  ASSUME NEW S, NEW s \in Seq(S)
  PROVE  /\ OrdersIn(s) \in Seq(Light!Modes \cup { Light!Other })
         /\ Len(OrdersIn(s)) = Len(s) /\ Len(s) \in Nat
         /\ \A i \in 1 .. Len(s) : OrdersIn(s)[i] = OrderOf(s[i])
PROOF
<1>1. DOMAIN s = 1 .. Len(s) /\ Len(s) \in Nat
  OBVIOUS
<1>2. \A p : OrderOf(p) \in Light!Modes \cup { Light!Other }
  BY DEF OrderOf
<1>3. OrdersIn(s) \in [1 .. Len(s) -> Light!Modes \cup { Light!Other }]
  BY <1>1, <1>2 DEF OrdersIn
<1>4. OrdersIn(s) \in Seq(Light!Modes \cup { Light!Other }) /\ Len(OrdersIn(s)) = Len(s)
  BY <1>1, <1>3
<1> QED
  BY <1>1, <1>4 DEF OrdersIn

(* A sequence of orders is known by its elements.                          *)
LEMMA OrdersEqual ==
  ASSUME NEW S, NEW s \in Seq(S), NEW T, NEW t \in Seq(T), Len(t) = Len(s),
         \A i \in 1 .. Len(s) : t[i] = OrderOf(s[i])
  PROVE  OrdersIn(s) = t
PROOF
<1>1. DOMAIN s = 1 .. Len(s) /\ DOMAIN t = 1 .. Len(s) /\ t = [i \in DOMAIN t |-> t[i]]
  OBVIOUS
<1> QED
  BY <1>1 DEF OrdersIn

LEMMA OrdersAppended ==
  ASSUME NEW S, NEW s \in Seq(S), NEW p \in S
  PROVE  OrdersIn(Append(s, p)) = Append(OrdersIn(s), OrderOf(p))
PROOF
<1> DEFINE o == OrdersIn(s)
           u == Append(s, p)
           t == Append(o, OrderOf(p))
<1>1. /\ o \in Seq(Light!Modes \cup { Light!Other }) /\ Len(o) = Len(s) /\ Len(s) \in Nat
      /\ \A i \in 1 .. Len(s) : o[i] = OrderOf(s[i])
  BY OrdersOfPackets
<1>2. /\ u \in Seq(S) /\ Len(u) = Len(s) + 1
      /\ \A i \in 1 .. Len(s) : u[i] = s[i]
      /\ u[Len(s) + 1] = p
  BY AppendProperties
<1>3. OrderOf(p) \in Light!Modes \cup { Light!Other }
  BY DEF OrderOf
<1> HIDE DEF o, u
<1>4. /\ t \in Seq(Light!Modes \cup { Light!Other }) /\ Len(t) = Len(s) + 1
      /\ \A i \in 1 .. Len(s) : t[i] = o[i]
      /\ t[Len(s) + 1] = OrderOf(p)
  BY <1>1, <1>3, AppendProperties
<1> HIDE DEF t
<1>5. ASSUME NEW i \in 1 .. Len(u)
      PROVE  t[i] = OrderOf(u[i])
  <2>1. i \in 1 .. Len(s) \/ i = Len(s) + 1
    BY <1>1, <1>2
  <2> QED
    BY <1>1, <1>2, <1>4, <2>1
<1>6. OrdersIn(u) = t
  BY <1>2, <1>4, <1>5, OrdersEqual
<1> QED
  BY <1>6 DEF u, t, o

LEMMA OrdersTaken ==
  ASSUME NEW S, NEW s \in Seq(S), s # << >>
  PROVE  /\ OrdersIn(s) # << >> /\ Head(OrdersIn(s)) = OrderOf(Head(s))
         /\ OrdersIn(Tail(s)) = Tail(OrdersIn(s))
PROOF
<1> DEFINE o == OrdersIn(s)
           u == Tail(s)
           t == Tail(o)
<1>1. /\ o \in Seq(Light!Modes \cup { Light!Other }) /\ Len(o) = Len(s) /\ Len(s) \in Nat
      /\ \A i \in 1 .. Len(s) : o[i] = OrderOf(s[i])
  BY OrdersOfPackets
<1>2. /\ u \in Seq(S) /\ Len(u) = Len(s) - 1
      /\ \A i \in 1 .. Len(u) : u[i] = s[i + 1]
  BY HeadTailProperties
<1> HIDE DEF o, u
<1>3. Len(s) > 0 /\ o # << >> /\ Head(o) = o[1] /\ Head(s) = s[1]
  BY <1>1
<1>4. /\ t \in Seq(Light!Modes \cup { Light!Other }) /\ Len(t) = Len(o) - 1
      /\ \A i \in 1 .. Len(t) : t[i] = o[i + 1]
  BY <1>1, <1>3, HeadTailProperties
<1> HIDE DEF t
<1>5. ASSUME NEW i \in 1 .. Len(u)
      PROVE  t[i] = OrderOf(u[i])
  <2>1. i + 1 \in 1 .. Len(s) /\ i \in 1 .. Len(t)
    BY <1>1, <1>2, <1>4
  <2> QED
    BY <1>1, <1>2, <1>4, <2>1
<1>6. OrdersIn(u) = t
  BY <1>1, <1>2, <1>4, <1>5, OrdersEqual
<1>7. 1 \in 1 .. Len(s)
  BY <1>1, <1>3
<1> QED
  BY <1>1, <1>3, <1>6, <1>7 DEF u, t, o

LEMMA OrdersCut ==
  ASSUME NEW S, NEW s \in Seq(S), NEW k \in 0 .. Len(s)
  PROVE  /\ OrdersIn(SubSeq(s, 1, k)) = SubSeq(OrdersIn(s), 1, k)
         /\ OrdersIn(SubSeq(s, k + 1, Len(s))) = SubSeq(OrdersIn(s), k + 1, Len(OrdersIn(s)))
PROOF
<1> DEFINE o == OrdersIn(s)
           u == SubSeq(s, 1, k)
           v == SubSeq(s, k + 1, Len(s))
           t == SubSeq(o, 1, k)
           w == SubSeq(o, k + 1, Len(o))
<1>1. /\ o \in Seq(Light!Modes \cup { Light!Other }) /\ Len(o) = Len(s) /\ Len(s) \in Nat
      /\ \A i \in 1 .. Len(s) : o[i] = OrderOf(s[i])
  BY OrdersOfPackets
<1>2. /\ u \in Seq(S) /\ Len(u) = k /\ \A i \in 1 .. k : u[i] = s[i]
      /\ v \in Seq(S) /\ Len(v) = Len(s) - k
      /\ \A i \in 1 .. Len(s) - k : v[i] = s[k + i]
  BY CutSequence
<1> HIDE DEF o, u, v
<1>3. /\ t \in Seq(Light!Modes \cup { Light!Other }) /\ Len(t) = k
      /\ \A i \in 1 .. k : t[i] = o[i]
      /\ w \in Seq(Light!Modes \cup { Light!Other }) /\ Len(w) = Len(o) - k
      /\ \A i \in 1 .. Len(o) - k : w[i] = o[k + i]
  BY <1>1, CutSequence
<1> HIDE DEF t, w
<1>4. \A i \in 1 .. k : i \in 1 .. Len(s)
  BY <1>1
<1>5. \A i \in 1 .. k : t[i] = OrderOf(u[i])
  BY <1>1, <1>2, <1>3, <1>4
<1>6. \A i \in 1 .. Len(s) - k : k + i \in 1 .. Len(s)
  BY <1>1
<1>7. \A i \in 1 .. Len(s) - k : w[i] = OrderOf(v[i])
  BY <1>1, <1>2, <1>3, <1>6
<1>8. OrdersIn(u) = t
  BY <1>2, <1>3, <1>5, OrdersEqual
<1>9. OrdersIn(v) = w
  BY <1>1, <1>2, <1>3, <1>7, OrdersEqual
<1> QED
  BY <1>8, <1>9 DEF u, v, t, w, o

LEMMA OrderRemoved ==
  ASSUME NEW S, NEW s \in Seq(S), NEW k \in 1 .. Len(s)
  PROVE  OrdersIn(RemoveAt(s, k)) = RemoveAt(OrdersIn(s), k)
PROOF
<1> DEFINE o == OrdersIn(s)
           u == RemoveAt(s, k)
           t == RemoveAt(o, k)
<1>1. /\ o \in Seq(Light!Modes \cup { Light!Other }) /\ Len(o) = Len(s) /\ Len(s) \in Nat
      /\ \A i \in 1 .. Len(s) : o[i] = OrderOf(s[i])
  BY OrdersOfPackets
<1>2. /\ u \in Seq(S) /\ Len(u) = Len(s) - 1
      /\ \A i \in 1 .. Len(s) - 1 : u[i] = IF i < k THEN s[i] ELSE s[i + 1]
  BY RemovedElement
<1> HIDE DEF o, u
<1>3. /\ t \in Seq(Light!Modes \cup { Light!Other }) /\ Len(t) = Len(s) - 1
      /\ \A i \in 1 .. Len(s) - 1 : t[i] = IF i < k THEN o[i] ELSE o[i + 1]
  BY <1>1, RemovedElement
<1> HIDE DEF t
<1>4. \A i \in 1 .. Len(s) - 1 : i \in 1 .. Len(s) /\ i + 1 \in 1 .. Len(s)
  BY <1>1
<1>5. \A i \in 1 .. Len(s) - 1 : t[i] = OrderOf(u[i])
  BY <1>1, <1>2, <1>3, <1>4
<1>6. OrdersIn(u) = t
  BY <1>2, <1>3, <1>5, OrdersEqual
<1> QED
  BY <1>6 DEF u, t, o

(* The packet the controller holds and has not handled comes before those  *)
(* on the line.                                                            *)
LEMMA HeldComesFirst ==
  ASSUME NEW S, NEW h \in S, NEW s \in Seq(S)
  PROVE  /\ << h >> \o s \in Seq(S) /\ Len(<< h >> \o s) = Len(s) + 1 /\ Len(s) \in Nat
         /\ (<< h >> \o s)[1] = h
         /\ \A i \in 1 .. Len(s) : (<< h >> \o s)[i + 1] = s[i]
PROOF
<1> DEFINE f == << h >>
           u == f \o s
<1>1. f \in Seq(S) /\ Len(f) = 1 /\ f[1] = h
  OBVIOUS
<1>2. Len(s) \in Nat
  BY LenProperties
<1> HIDE DEF f
<1>3. /\ u \in Seq(S) /\ Len(u) = Len(f) + Len(s)
      /\ \A i \in 1 .. Len(f) + Len(s) :
           u[i] = IF i <= Len(f) THEN f[i] ELSE s[i - Len(f)]
  BY <1>1, ConcatProperties
<1> HIDE DEF u
<1>4. /\ u \in Seq(S) /\ Len(u) = 1 + Len(s)
      /\ \A i \in 1 .. 1 + Len(s) : u[i] = IF i <= 1 THEN f[i] ELSE s[i - 1]
  BY <1>1, <1>3
<1>5. \A i \in 1 .. Len(s) : i + 1 \in 1 .. 1 + Len(s) /\ ~(i + 1 <= 1) /\ (i + 1) - 1 = i
  BY <1>2
<1>6. 1 \in 1 .. 1 + Len(s) /\ 1 + Len(s) = Len(s) + 1
  BY <1>2
<1>7. \A i \in 1 .. Len(s) : u[i + 1] = s[i]
  BY <1>4, <1>5
<1>8. u[1] = h
  BY <1>1, <1>4, <1>6
<1> QED
  BY <1>2, <1>4, <1>6, <1>7, <1>8 DEF f, u

(* A sequence that begins with h and goes on with s.                       *)
LEMMA BeginsWithHeld ==
  ASSUME NEW S, NEW h \in S, NEW s \in Seq(S), NEW t \in Seq(S),
         Len(t) = Len(s) + 1, t[1] = h, \A i \in 1 .. Len(s) : t[i + 1] = s[i]
  PROVE  << h >> \o s = t
PROOF
<1> DEFINE u == << h >> \o s
<1>1. /\ u \in Seq(S) /\ Len(u) = Len(s) + 1 /\ Len(s) \in Nat
      /\ u[1] = h /\ \A i \in 1 .. Len(s) : u[i + 1] = s[i]
  BY HeldComesFirst
<1> HIDE DEF u
<1>2. ASSUME NEW i \in 1 .. Len(u)
      PROVE  u[i] = t[i]
  <2>1. CASE i = 1
    BY <1>1, <2>1
  <2>2. CASE i # 1
    <3>1. i - 1 \in 1 .. Len(s) /\ (i - 1) + 1 = i
      BY <1>1, <2>2
    <3> QED
      BY <1>1, <3>1
  <2> QED
    BY <2>1, <2>2
<1>3. u = t
  BY <1>1, <1>2, SeqEqual
<1> QED
  BY <1>3 DEF u

LEMMA HeldThenTaken ==
  ASSUME NEW S, NEW h \in S, NEW s \in Seq(S)
  PROVE  << h >> \o s # << >> /\ Head(<< h >> \o s) = h /\ Tail(<< h >> \o s) = s
PROOF
<1> DEFINE u == << h >> \o s
<1>1. /\ u \in Seq(S) /\ Len(u) = Len(s) + 1 /\ Len(s) \in Nat
      /\ u[1] = h /\ \A i \in 1 .. Len(s) : u[i + 1] = s[i]
  BY HeldComesFirst
<1> HIDE DEF u
<1>2. Len(u) # 0
  BY <1>1
<1>3. u # << >> /\ Head(u) = h
  BY <1>1, <1>2
<1> DEFINE t == Tail(u)
<1>4. /\ t \in Seq(S) /\ Len(t) = Len(u) - 1
      /\ \A i \in 1 .. Len(t) : t[i] = u[i + 1]
  BY <1>1, <1>3, HeadTailProperties
<1> HIDE DEF t
<1>5. Len(t) = Len(s)
  BY <1>1, <1>4
<1>6. t = s
  BY <1>1, <1>4, <1>5, SeqEqual
<1> QED
  BY <1>3, <1>6 DEF t, u

LEMMA HeldThenAppended ==
  ASSUME NEW S, NEW h \in S, NEW s \in Seq(S), NEW p \in S
  PROVE  << h >> \o Append(s, p) = Append(<< h >> \o s, p)
PROOF
<1> DEFINE u == << h >> \o s
           v == Append(s, p)
           t == Append(u, p)
<1>1. /\ u \in Seq(S) /\ Len(u) = Len(s) + 1 /\ Len(s) \in Nat
      /\ u[1] = h /\ \A i \in 1 .. Len(s) : u[i + 1] = s[i]
  BY HeldComesFirst
<1>2. /\ v \in Seq(S) /\ Len(v) = Len(s) + 1
      /\ \A i \in 1 .. Len(s) : v[i] = s[i]
      /\ v[Len(s) + 1] = p
  BY AppendProperties
<1> HIDE DEF u, v
<1>3. /\ t \in Seq(S) /\ Len(t) = Len(u) + 1
      /\ \A i \in 1 .. Len(u) : t[i] = u[i]
      /\ t[Len(u) + 1] = p
  BY <1>1, AppendProperties
<1> HIDE DEF t
<1>4. 1 \in 1 .. Len(u) /\ Len(t) = Len(v) + 1
  BY <1>1, <1>2, <1>3
<1>5. ASSUME NEW i \in 1 .. Len(v)
      PROVE  t[i + 1] = v[i]
  <2>1. CASE i = Len(s) + 1
    BY <1>1, <1>2, <1>3, <2>1
  <2>2. CASE i # Len(s) + 1
    <3>1. i \in 1 .. Len(s) /\ i + 1 \in 1 .. Len(u)
      BY <1>1, <1>2, <2>2
    <3> QED
      BY <1>1, <1>2, <1>3, <3>1
  <2> QED
    BY <2>1, <2>2
<1>6. t[1] = h
  BY <1>1, <1>3, <1>4
<1>7. << h >> \o v = t
  BY <1>2, <1>3, <1>4, <1>5, <1>6, BeginsWithHeld
<1> QED
  BY <1>7 DEF t, u, v

LEMMA HeldThenCut ==
  ASSUME NEW S, NEW h \in S, NEW s \in Seq(S), NEW k \in 0 .. Len(s)
  PROVE  << h >> \o SubSeq(s, 1, k) = SubSeq(<< h >> \o s, 1, k + 1)
PROOF
<1> DEFINE u == << h >> \o s
           v == SubSeq(s, 1, k)
           t == SubSeq(u, 1, k + 1)
<1>1. /\ u \in Seq(S) /\ Len(u) = Len(s) + 1 /\ Len(s) \in Nat
      /\ u[1] = h /\ \A i \in 1 .. Len(s) : u[i + 1] = s[i]
  BY HeldComesFirst
<1>2. v \in Seq(S) /\ Len(v) = k /\ \A i \in 1 .. k : v[i] = s[i]
  BY CutSequence
<1> HIDE DEF u, v
<1>3. k + 1 \in 0 .. Len(u)
  BY <1>1
<1>4. t \in Seq(S) /\ Len(t) = k + 1 /\ \A i \in 1 .. k + 1 : t[i] = u[i]
  BY <1>1, <1>3, CutSequence
<1> HIDE DEF t
<1>5. \A i \in 1 .. k : i \in 1 .. Len(s) /\ i + 1 \in 1 .. k + 1
  BY <1>1
<1>6. \A i \in 1 .. k : t[i + 1] = v[i]
  BY <1>1, <1>2, <1>4, <1>5
<1>7. 1 \in 1 .. k + 1
  BY <1>1
<1>8. << h >> \o v = t
  BY <1>1, <1>2, <1>4, <1>6, <1>7, BeginsWithHeld
<1> QED
  BY <1>8 DEF t, u, v

LEMMA HeldThenRemoved ==
  ASSUME NEW S, NEW h \in S, NEW s \in Seq(S), NEW k \in 1 .. Len(s)
  PROVE  << h >> \o RemoveAt(s, k) = RemoveAt(<< h >> \o s, k + 1)
PROOF
<1> DEFINE u == << h >> \o s
           v == RemoveAt(s, k)
           t == RemoveAt(u, k + 1)
<1>1. /\ u \in Seq(S) /\ Len(u) = Len(s) + 1 /\ Len(s) \in Nat
      /\ u[1] = h /\ \A i \in 1 .. Len(s) : u[i + 1] = s[i]
  BY HeldComesFirst
<1>2. /\ v \in Seq(S) /\ Len(v) = Len(s) - 1
      /\ \A i \in 1 .. Len(s) - 1 : v[i] = IF i < k THEN s[i] ELSE s[i + 1]
  BY RemovedElement
<1> HIDE DEF u, v
<1>3. k + 1 \in 1 .. Len(u)
  BY <1>1
<1>4. /\ t \in Seq(S) /\ Len(t) = Len(u) - 1
      /\ \A i \in 1 .. Len(u) - 1 : t[i] = IF i < k + 1 THEN u[i] ELSE u[i + 1]
  BY <1>1, <1>3, RemovedElement
<1> HIDE DEF t
<1>5. ASSUME NEW i \in 1 .. Len(v)
      PROVE  t[i + 1] = v[i]
  <2>1. /\ i \in 1 .. Len(s) - 1 /\ i \in 1 .. Len(s) /\ i + 1 \in 1 .. Len(s)
        /\ i + 1 \in 1 .. Len(u) - 1 /\ (i + 1 < k + 1 <=> i < k)
    BY <1>1, <1>2
  <2>2. u[i + 1] = s[i] /\ u[(i + 1) + 1] = s[i + 1]
    BY <1>1, <2>1
  <2> QED
    BY <1>2, <1>4, <2>1, <2>2
<1>6. 1 \in 1 .. Len(u) - 1 /\ 1 < k + 1 /\ Len(t) = Len(v) + 1
  BY <1>1, <1>2, <1>4
<1>7. t[1] = h
  BY <1>1, <1>4, <1>6
<1>8. << h >> \o v = t
  BY <1>2, <1>4, <1>5, <1>6, <1>7, BeginsWithHeld
<1> QED
  BY <1>8 DEF t, u, v

-----------------------------------------------------------------------------
(* The refinement: what each step is as a step of LightSwitch.             *)
LEMMA WaitingPackets ==
  ASSUME SystemInv
  PROVE  /\ line \in Seq(Light!Packet) /\ Len(line) \in Nat /\ OnWire \in 0 .. Len(line)
         /\ Waiting \in Seq(Light!Packet) /\ Len(Waiting) \in Nat
         /\ unhandled => /\ loopPc = "handle" /\ held \in Light!Packet
                         /\ Waiting = << held >> \o line /\ Len(Waiting) = Len(line) + 1
         /\ ~unhandled => Waiting = line
         /\ unhandled \in BOOLEAN
         /\ Len(Orders) = Len(Waiting)
PROOF
<1>1. /\ line \in Seq(Light!Packet) /\ Len(line) \in Nat /\ awaiting \in 0 .. Len(line)
      /\ unhandled \in BOOLEAN
  BY DEF SystemInv, LineTypeOK, LightFacts!LightInv, LightFacts!LightTypeOK
<1>2. OnWire \in 0 .. Len(line)
  BY <1>1 DEF OnWire
<1>3. unhandled => loopPc = "handle" /\ held \in Light!Packet
  BY SamePackets
  DEF SystemInv, LightFacts!LightInv, LightFacts!LightTypeOK, LightFacts!UnhandledIsNext,
      LightFacts!HandlingAPacket
<1>4. CASE unhandled
  <2>1. Waiting \in Seq(Light!Packet) /\ Len(Waiting) = Len(line) + 1
    BY <1>1, <1>3, <1>4, HeldComesFirst DEF Waiting
  <2>2. Len(Waiting) \in Nat /\ Len(Orders) = Len(Waiting)
    BY <2>1, OrdersOfPackets DEF Orders
  <2> QED
    BY <1>1, <1>2, <1>3, <1>4, <2>1, <2>2 DEF Waiting
<1>5. CASE ~unhandled
  <2>1. Waiting = line
    BY <1>5 DEF Waiting
  <2>2. Len(Orders) = Len(Waiting)
    BY <1>1, <2>1, OrdersOfPackets DEF Orders
  <2> QED
    BY <1>1, <1>2, <1>5, <2>1, <2>2
<1> QED
  BY <1>1, <1>4, <1>5

LEMMA ServerStepOrders ==
  ASSUME SystemInv, ServerHeld, ServerHeld', ServerStep(Requests)
  PROVE  [Switch!SwitchNext]_(Switch!switchVars)
PROOF
<1>1. UNCHANGED << component, held, unhandled >>
  BY DEF ServerStep, lightVars
<1>2. UNCHANGED << component, Kept >>
  BY <1>1 DEF Kept
<1>3. \/ line' = line
      \/ line' = Append(line, Outgoing) /\ Outgoing \in Light!Packet
  <2>1. ServerFacts!ServerNext
    BY SameServer DEF ServerStep, Server!ServerNext
  <2>2. awaiting \in Nat /\ awaiting' \in Nat
    BY DEF ServerHeld, ServerFacts!ServerInv, ServerFacts!ServerTypeOK,
           ServerFacts!SendTypeOK
  <2>3. awaiting' <= awaiting \/ ServerFacts!PacketAnnounced
    <3>1. ServerFacts!StartInstalled
      BY DEF ServerHeld, ServerFacts!ModeInv
    <3> QED
      BY <2>1, <3>1, ServerAssumed, ServerFacts!PacketsAreAnnounced DEF ServerHeld
  <2>4. ServerFacts!PacketAnnounced => Outgoing \in Light!Packet
    BY OutgoingNoted DEF ServerHeld, NotesPacket
  <2>5. awaiting' <= awaiting => ~(awaiting' > awaiting)
    BY <2>2
  <2> QED
    BY <2>3, <2>4, <2>5 DEF ServerStep, Written
<1>4. CASE line' = line
  BY <1>1, <1>2, <1>4 DEF Switch!switchVars, Orders, Waiting
<1>5. CASE line' = Append(line, Outgoing) /\ Outgoing \in Light!Packet
  <2> DEFINE p == Outgoing
  <2>1. Waiting' = Append(Waiting, p)
    <3>1. CASE unhandled
      <4>1. << held >> \o Append(line, p) = Append(<< held >> \o line, p)
        BY <1>5, <3>1, WaitingPackets, HeldThenAppended
      <4> QED
        BY <1>1, <1>5, <3>1, <4>1 DEF Waiting
    <3>2. CASE ~unhandled
      BY <1>1, <1>5, <3>2 DEF Waiting
    <3> QED
      BY <3>1, <3>2
  <2>2. Orders' = Append(Orders, OrderOf(p))
    <3>1. OrdersIn(Append(Waiting, p)) = Append(OrdersIn(Waiting), OrderOf(p))
      BY <1>5, WaitingPackets, OrdersAppended
    <3>2. Orders' = OrdersIn(Waiting')
      BY DEF Orders, OrdersIn, OrderOf
    <3> QED
      BY <2>1, <3>1, <3>2 DEF Orders
  <2>3. OrderOf(p) \in Light!Modes \cup { Light!Other }
    BY DEF OrderOf
  <2> HIDE DEF p
  <2>4. Switch!Order(OrderOf(p))
    BY <1>2, <2>2 DEF Switch!Order
  <2> QED
    BY <2>3, <2>4 DEF Switch!SwitchNext
<1> QED
  BY <1>3, <1>4, <1>5

LEMMA DrainOrders ==
  ASSUME SystemInv, Drain
  PROVE  [Switch!SwitchNext]_(Switch!switchVars)
PROOF
<1>1. UNCHANGED << component, held, unhandled >>
  BY DEF Drain, lightVars
<1>2. UNCHANGED << component, Kept >>
  BY <1>1 DEF Kept
<1>3. awaiting > 0 /\ awaiting \in 0 .. Len(line) /\ Len(line) \in Nat
  BY DEF Drain, Server!Drain, SystemInv, LineTypeOK
<1>4. CASE line' = line
  BY <1>1, <1>2, <1>4 DEF Switch!switchVars, Orders, Waiting
<1>5. CASE line' = RemoveAt(line, OnWire + 1)
  <2>1. PICK k \in 1 .. Len(line) : k = OnWire + 1
    BY <1>3 DEF OnWire
  <2>2. \E i \in 1 .. Len(Waiting) : Waiting' = RemoveAt(Waiting, i)
    <3>1. CASE unhandled
      <4>1. << held >> \o RemoveAt(line, k) = RemoveAt(<< held >> \o line, k + 1)
        <5>1. held \in Light!Packet /\ line \in Seq(Light!Packet)
          BY <3>1, WaitingPackets
        <5> QED
          BY <5>1, HeldThenRemoved
      <4>2. k + 1 \in 1 .. Len(Waiting)
        BY <3>1, WaitingPackets
      <4> QED
        BY <1>1, <1>5, <2>1, <3>1, <4>1, <4>2 DEF Waiting
    <3>2. CASE ~unhandled
      BY <1>1, <1>5, <2>1, <3>2 DEF Waiting
    <3> QED
      BY <3>1, <3>2
  <2>3. PICK i \in 1 .. Len(Waiting) : Waiting' = RemoveAt(Waiting, i)
    BY <2>2
  <2>4. Orders' = RemoveAt(Orders, i)
    <3>1. OrdersIn(RemoveAt(Waiting, i)) = RemoveAt(OrdersIn(Waiting), i)
      BY WaitingPackets, OrderRemoved
    <3>2. Orders' = OrdersIn(Waiting')
      BY DEF Orders, OrdersIn, OrderOf
    <3> QED
      BY <2>3, <3>1, <3>2 DEF Orders
  <2>5. Switch!Lose(i)
    BY <1>2, <2>4 DEF Switch!Lose, Switch!RemoveAt, RemoveAt
  <2>6. i \in 1 .. Len(Orders)
    BY WaitingPackets
  <2> QED
    BY <2>5, <2>6 DEF Switch!SwitchNext
<1> QED
  BY <1>4, <1>5 DEF Drain

LEMMA UnplugOrders ==
  ASSUME SystemInv, Unplug
  PROVE  [Switch!SwitchNext]_(Switch!switchVars)
PROOF
<1>1. UNCHANGED << component, held, unhandled >> /\ line' = SubSeq(line, 1, OnWire)
  BY DEF Unplug, lightVars
<1>2. UNCHANGED << component, Kept >>
  BY <1>1 DEF Kept
<1>3. PICK k \in 0 .. Len(line) : k = OnWire
  BY WaitingPackets
<1>4. \E i \in 0 .. Len(Waiting) : Waiting' = SubSeq(Waiting, 1, i)
  <2>1. CASE unhandled
    <3>1. << held >> \o SubSeq(line, 1, k) = SubSeq(<< held >> \o line, 1, k + 1)
      BY <2>1, WaitingPackets, HeldThenCut
    <3>2. k + 1 \in 0 .. Len(Waiting)
      BY <2>1, WaitingPackets
    <3> QED
      BY <1>1, <1>3, <2>1, <3>1, <3>2 DEF Waiting
  <2>2. CASE ~unhandled
    BY <1>1, <1>3, <2>2 DEF Waiting
  <2> QED
    BY <2>1, <2>2
<1>5. PICK i \in 0 .. Len(Waiting) : Waiting' = SubSeq(Waiting, 1, i)
  BY <1>4
<1>6. Orders' = SubSeq(Orders, 1, i)
  <2>1. OrdersIn(SubSeq(Waiting, 1, i)) = SubSeq(OrdersIn(Waiting), 1, i)
    BY WaitingPackets, OrdersCut
  <2>2. Orders' = OrdersIn(Waiting')
    BY DEF Orders, OrdersIn, OrderOf
  <2> QED
    BY <1>5, <2>1, <2>2 DEF Orders
<1>7. Switch!LoseMany(i)
  BY <1>2, <1>6 DEF Switch!LoseMany
<1>8. i \in 0 .. Len(Orders)
  BY WaitingPackets
<1> QED
  BY <1>7, <1>8 DEF Switch!SwitchNext

(* A packet that was handled is all there is to go back to.                *)
LEMMA HandleOrders ==
  ASSUME SystemInv, Light!Handle, UNCHANGED line
  PROVE  [Switch!SwitchNext]_(Switch!switchVars)
PROOF
<1>1. /\ component' = IF held.type \in Light!Modes THEN held.type ELSE component
      /\ unhandled' = FALSE /\ held' = held
  BY DEF Light!Handle
<1>2. held # NoPacket
  BY DEF Light!Handle, SystemInv, LightFacts!LightInv, LightFacts!HandlingAPacket
<1>3. Light!Other \notin Light!Modes
  BY DEF Light!Other, Light!Modes
<1>4. component' = IF OrderOf(held) = Light!Other THEN component ELSE OrderOf(held)
  BY <1>1, <1>3 DEF OrderOf
<1>5. Kept' = { OrderOf(held) } \ { Light!Other }
  BY <1>1, <1>2 DEF Kept, OrderOf
<1>6. CASE unhandled
  <2>1. held \in Light!Packet /\ line \in Seq(Light!Packet) /\ Waiting = << held >> \o line
    BY <1>6, WaitingPackets
  <2>2. Waiting # << >> /\ Head(Waiting) = held /\ Tail(Waiting) = line
    BY <2>1, HeldThenTaken
  <2>3. Waiting' = line
    BY <1>1 DEF Waiting
  <2>4. /\ OrdersIn(Waiting) # << >> /\ Head(OrdersIn(Waiting)) = OrderOf(held)
        /\ OrdersIn(line) = Tail(OrdersIn(Waiting))
    BY <2>2, WaitingPackets, OrdersTaken
  <2>5. Orders # << >> /\ Head(Orders) = OrderOf(held) /\ Orders' = Tail(Orders)
    <3>1. Orders' = OrdersIn(Waiting')
      BY DEF Orders, OrdersIn, OrderOf
    <3> QED
      BY <2>3, <2>4, <3>1 DEF Orders
  <2>6. Switch!Obey
    BY <1>4, <1>5, <2>5 DEF Switch!Obey
  <2> QED
    BY <2>6 DEF Switch!SwitchNext
<1>7. CASE ~unhandled
  <2>1. Kept = { OrderOf(held) } \ { Light!Other }
    BY <1>2, <1>7 DEF Kept
  <2>2. UNCHANGED << Orders, Kept >>
    BY <1>1, <1>5, <1>7, <2>1 DEF Orders, Waiting
  <2>3. CASE OrderOf(held) = Light!Other
    BY <1>4, <2>2, <2>3 DEF Switch!switchVars
  <2>4. CASE OrderOf(held) # Light!Other
    <3>1. Switch!Resume
      BY <1>4, <2>1, <2>2, <2>4 DEF Switch!Resume
    <3> QED
      BY <3>1 DEF Switch!SwitchNext
  <2> QED
    BY <2>3, <2>4
<1> QED
  BY <1>6, <1>7

(* The packets on the line when the first of them is read.                 *)
LEMMA FirstOnLine ==
  ASSUME SystemInv, OnWire > 0
  PROVE  /\ line \in Seq(Light!Packet) /\ line # << >> /\ 1 \in 1 .. Len(line)
         /\ Head(line) \in Light!Packet /\ << Head(line) >> \o Tail(line) = line
         /\ RemoveAt(line, 1) = Tail(line)
PROOF
<1> DEFINE h == Head(line)
           t == Tail(line)
<1>1. line \in Seq(Light!Packet) /\ Len(line) \in Nat /\ 1 \in 1 .. Len(line)
  BY WaitingPackets
<1>2. line # << >>
  BY <1>1
<1>3. /\ h \in Light!Packet /\ t \in Seq(Light!Packet) /\ Len(t) = Len(line) - 1
      /\ \A i \in 1 .. Len(t) : t[i] = line[i + 1]
      /\ h = line[1]
  BY <1>1, <1>2, HeadTailProperties
<1> HIDE DEF h, t
<1>4. Len(line) = Len(t) + 1
  BY <1>1, <1>3
<1>5. << h >> \o t = line
  BY <1>1, <1>3, <1>4, BeginsWithHeld
<1>6. RemoveAt(line, 1) = t
  <2> DEFINE u == RemoveAt(line, 1)
  <2>1. /\ u \in Seq(Light!Packet) /\ Len(u) = Len(line) - 1
        /\ \A i \in 1 .. Len(line) - 1 : u[i] = IF i < 1 THEN line[i] ELSE line[i + 1]
    BY <1>1, RemovedElement
  <2> HIDE DEF u
  <2>2. \A i \in 1 .. Len(u) : u[i] = t[i]
    BY <1>3, <2>1
  <2>3. u = t
    BY <1>3, <2>1, <2>2, SeqEqual
  <2> QED
    BY <2>3 DEF u
<1> QED
  BY <1>1, <1>2, <1>3, <1>5, <1>6 DEF h, t

LEMMA CompleteOrders ==
  ASSUME SystemInv, Complete
  PROVE  [Switch!SwitchNext]_(Switch!switchVars)
PROOF
<1>1. /\ OnWire > 0 /\ line' = Tail(line) /\ held' = Head(line) /\ unhandled' = TRUE
      /\ loopPc = "tick" /\ UNCHANGED component
  BY DEF Complete, Light!TickComplete
<1>2. ~unhandled
  BY <1>1, WaitingPackets
<1>3. Waiting = line /\ Waiting' = line
  BY <1>1, <1>2, FirstOnLine DEF Waiting
<1>4. Orders' = Orders
  BY <1>3 DEF Orders, OrdersIn, OrderOf
<1>5. Kept' = {}
  BY <1>1 DEF Kept
<1>6. Switch!Forget
  BY <1>1, <1>4, <1>5 DEF Switch!Forget
<1> QED
  BY <1>6 DEF Switch!SwitchNext

LEMMA DamagedOrders ==
  ASSUME SystemInv, Damaged
  PROVE  [Switch!SwitchNext]_(Switch!switchVars)
PROOF
<1>1. /\ OnWire > 0 /\ line' = Tail(line) /\ held' = NoPacket /\ unhandled' = unhandled
      /\ loopPc = "tick" /\ UNCHANGED component
  BY DEF Damaged, Light!TickPartial, Light!history
<1>2. ~unhandled
  BY <1>1, WaitingPackets
<1>3. Waiting = line /\ Waiting' = RemoveAt(line, 1)
  BY <1>1, <1>2, FirstOnLine DEF Waiting
<1>4. Orders' = RemoveAt(Orders, 1)
  <2>1. OrdersIn(RemoveAt(line, 1)) = RemoveAt(OrdersIn(line), 1)
    BY <1>1, FirstOnLine, OrderRemoved
  <2>2. Orders' = OrdersIn(Waiting')
    BY DEF Orders, OrdersIn, OrderOf
  <2> QED
    BY <1>3, <2>1, <2>2 DEF Orders
<1>5. Kept' = {}
  BY <1>1 DEF Kept
<1>6. Switch!Lose(1)
  BY <1>1, <1>4, <1>5 DEF Switch!Lose, Switch!RemoveAt, RemoveAt
<1>7. 1 \in 1 .. Len(Orders)
  BY <1>1, <1>3, FirstOnLine, WaitingPackets
<1> QED
  BY <1>6, <1>7 DEF Switch!SwitchNext

(* What was held was handled before the next byte was read.                *)
LEMMA ReadPartlyOrders ==
  ASSUME SystemInv, ReadPartly
  PROVE  [Switch!SwitchNext]_(Switch!switchVars)
PROOF
<1>1. /\ line' = line /\ held' = NoPacket /\ unhandled' = unhandled
      /\ loopPc = "tick" /\ UNCHANGED component
  BY DEF ReadPartly, Light!TickPartial, Light!history
<1>2. ~unhandled
  BY <1>1, WaitingPackets
<1>3. UNCHANGED Orders /\ Kept' = {}
  BY <1>1, <1>2 DEF Orders, Waiting, Kept
<1>4. Switch!Forget
  BY <1>1, <1>3 DEF Switch!Forget
<1> QED
  BY <1>4 DEF Switch!SwitchNext

LEMMA RestartOrders ==
  ASSUME SystemInv, Restart
  PROVE  [Switch!SwitchNext]_(Switch!switchVars)
PROOF
<1>1. /\ loopPc = "top" /\ component' = "AMBIENT" /\ held' = NoPacket
      /\ unhandled' = FALSE /\ line' = SubSeq(line, OnWire + 1, Len(line))
  BY DEF Restart, Light!OtaRestart
<1>2. ~unhandled
  BY <1>1, WaitingPackets
<1>3. PICK k \in 0 .. Len(line) : k = OnWire
  BY WaitingPackets
<1>4. Waiting = line /\ Waiting' = SubSeq(line, k + 1, Len(line))
  BY <1>1, <1>2, <1>3 DEF Waiting
<1>5. Orders' = SubSeq(Orders, k + 1, Len(Orders))
  <2>1. OrdersIn(SubSeq(line, k + 1, Len(line)))
          = SubSeq(OrdersIn(line), k + 1, Len(OrdersIn(line)))
    BY WaitingPackets, OrdersCut
  <2>2. Orders' = OrdersIn(Waiting')
    BY DEF Orders, OrdersIn, OrderOf
  <2> QED
    BY <1>4, <2>1, <2>2 DEF Orders
<1>6. Kept' = {}
  BY <1>1 DEF Kept
<1>7. Switch!Reset(k)
  BY <1>1, <1>5, <1>6 DEF Switch!Reset
<1>8. k \in 0 .. Len(Orders)
  BY <1>4, WaitingPackets
<1> QED
  BY <1>7, <1>8 DEF Switch!SwitchNext

LEMMA LightStepOrders ==
  ASSUME SystemInv, LightStep
  PROVE  [Switch!SwitchNext]_(Switch!switchVars)
PROOF
<1>1. CASE /\ Light!FinishSetup \/ Light!Animate \/ Light!TickIdle
           /\ UNCHANGED line
  <2>1. UNCHANGED << component, held, unhandled >>
    BY <1>1 DEF Light!FinishSetup, Light!Animate, Light!TickIdle, Light!history
  <2> QED
    BY <1>1, <2>1 DEF Switch!switchVars, Orders, Waiting, Kept
<1>2. CASE Light!Timeouts /\ UNCHANGED line
  <2>1. UNCHANGED << held, unhandled >> /\ component' \in { "AMBIENT", Light!None, component }
    BY <1>2 DEF Light!Timeouts, Light!history
  <2>2. UNCHANGED << Orders, Kept >>
    BY <1>2, <2>1 DEF Orders, Waiting, Kept
  <2>3. CASE component' = component
    BY <2>2, <2>3 DEF Switch!switchVars
  <2>4. CASE component' \in { "AMBIENT", Light!None }
    BY <2>2, <2>4 DEF Switch!SwitchNext, Switch!Lapse
  <2> QED
    BY <2>1, <2>3, <2>4
<1>3. CASE Light!Handle /\ UNCHANGED line
  BY <1>3, HandleOrders
<1> QED
  BY <1>1, <1>2, <1>3, CompleteOrders, DamagedOrders, ReadPartlyOrders DEF LightStep

(* Whatever the threads, the port and the controller do, the modes of the  *)
(* installation behave as LightSwitch says: orders are obeyed in the order *)
(* in which they were written, and without an order the light only falls   *)
(* back or returns to the mode obeyed last.                                *)
THEOREM SystemIsLightSwitch == SystemSpec => IsLightSwitch
PROOF
<1>1. SystemInit => Switch!SwitchInit
  <2> SUFFICES ASSUME SystemInit
               PROVE  Switch!SwitchInit
    OBVIOUS
  <2>1. line = << >> /\ unhandled = FALSE /\ held = NoPacket /\ component = "AMBIENT"
    BY DEF SystemInit, Light!LightInit
  <2>2. Waiting = << >>
    BY <2>1 DEF Waiting
  <2>3. Len(OrdersIn(<< >>)) = 0 /\ OrdersIn(<< >>) \in Seq(Light!Modes \cup { Light!Other })
    <3>1. << >> \in Seq({}) /\ Len(<< >>) = 0
      OBVIOUS
    <3> QED
      BY <3>1, OrdersOfPackets
  <2>4. Orders = << >>
    BY <2>2, <2>3 DEF Orders
  <2>5. Kept = {}
    BY <2>1 DEF Kept
  <2> QED
    BY <2>1, <2>4, <2>5 DEF Switch!SwitchInit
<1>2. SystemInv /\ ServerHeld /\ ServerHeld' /\ [SystemNext]_systemVars
        => [Switch!SwitchNext]_(Switch!switchVars)
  <2> SUFFICES ASSUME SystemInv, ServerHeld, ServerHeld', [SystemNext]_systemVars
               PROVE  [Switch!SwitchNext]_(Switch!switchVars)
    OBVIOUS
  <2>1. CASE UNCHANGED systemVars
    BY <2>1 DEF systemVars, lightVars, Switch!switchVars, Orders, Waiting, Kept
  <2>2. CASE SystemNext
    BY <2>2, ServerStepOrders, DrainOrders, UnplugOrders, LightStepOrders, RestartOrders
    DEF SystemNext
  <2> QED
    BY <2>1, <2>2
<1>3. SystemSpec => []ServerHeld
  BY ServerHolds, PTL DEF ServerHeld
<1> QED
  BY <1>1, <1>2, <1>3, SystemInvariant, PTL
  DEF SystemSpec, IsLightSwitch, Switch!SwitchSpec
=============================================================================
