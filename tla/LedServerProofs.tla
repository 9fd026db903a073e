-------------------------- MODULE LedServerProofs --------------------------
(* Proofs about the server's threads, for any number of clients, helpers,  *)
(* levels and tolerated blocking packets; and, at the end, about the flags *)
(* of the S2L helper, for any number of hits that are asked for.           *)
EXTENDS LedServer, S2LFlags, FiniteSetTheorems, TLAPS

-----------------------------------------------------------------------------
(* What a client needs in order to type the packet it is about to send:    *)
(* the request it works on, and a real level while it sets the brightness. *)
RequestInHand ==
  \A c \in Clients :
    /\ pc[c] \in { "send", "write" } => todo[c] # "nothing"
    /\ pc[c] \in { "check", "assign", "build" } => todo[c] = "brightness"
    /\ pc[c] \in { "check", "assign" } => level[c] \in Levels
    /\ pc[c] \in { "send", "write" } /\ todo[c] = "brightness" => level[c] \in Levels

(* setHelper has told the audio thread of the helper it replaces to stop   *)
(* by the time it waits for it or installs the new helper.                 *)
ToldToStop ==
  \A c \in Clients :
    pc[c] \in { "join", "install" } /\ HasDispatcher => currentHelper \in stopped

(* The inductive invariant: the monitor serialises the calls of setHelper, *)
(* without which neither of the last two would survive another client.     *)
ServerInv ==
  /\ ServerTypeOK
  /\ RequestInHand
  /\ MonitorHeld
  /\ BacklogBounded
  /\ ToldToStop
  /\ OnlyCurrentDispatches

-----------------------------------------------------------------------------
LEMMA ClipInLevels ==
  ASSUME NEW v \in Int, NEW low \in { 0, 1 }
  PROVE  Clip(v, low, MaxLevel) \in Levels
PROOF
  BY ServerAssumption DEF Clip, Levels

(* sendPacket keeps the types of what it writes, and the backlog bounded.  *)
LEMMA SendPacketKeeps ==
  ASSUME SendTypeOK, BacklogBounded, currentHelper \in Helpers \cup {0},
         NEW h \in Helpers \cup {0}, NEW l \in Levels \cup { NoLevel },
         SendPacket(h, l)
  PROVE  SendTypeOK' /\ BacklogBounded'
PROOF
<1> USE ServerAssumption
<1>1. blockedRun' \in 0 .. BlockLimit
  BY DEF SendTypeOK, SendPacket
<1>2. CASE ThrowAway
  BY <1>1, <1>2 DEF ThrowAway, SendTypeOK, BacklogBounded
<1>3. CASE PutOnLine(h, l)
  <2>1. /\ numBlockingPackets' \in 0 .. BlockLimit + 1
        /\ awaiting' \in Nat
        /\ BacklogBounded'
    BY <1>3 DEF PutOnLine, Blocked, SendTypeOK, BacklogBounded
  <2>2. /\ lastHelper' \in Helpers \cup {0}
        /\ lastLevel' \in Levels \cup { NoLevel }
        /\ stale' \in [Helpers -> Nat]
    BY <1>3 DEF PutOnLine, SendTypeOK
  <2>3. dropped' \in BOOLEAN
    BY <1>3 DEF PutOnLine, SendTypeOK
  <2> QED
    BY <1>1, <2>1, <2>2, <2>3 DEF SendTypeOK
<1> QED
  BY <1>2, <1>3 DEF SendPacket

(* Where a thread may be.                                                  *)
Labels == { "idle", "cast", "check", "assign", "build", "send", "write", "lock",
            "terminate", "join", "install", "start" }

(* A client that moves, or ends its request, stays well-typed.             *)
LEMMA ClientMoves ==
  ASSUME ClientsTypeOK, NEW c \in Clients,
         (\E label \in Labels : Move(c, label)) \/ Finish(c)
  PROVE  ClientsTypeOK'
PROOF
<1>1. CASE Finish(c)
  BY <1>1 DEF ClientsTypeOK, Finish, Goto
<1>2. CASE \E label \in Labels : Move(c, label)
  BY <1>2 DEF ClientsTypeOK, Move, Goto, Labels
<1> QED
  BY <1>1, <1>2

(* A request taken up leaves every variable well-typed.                    *)
LEMMA CallTyped ==
  ASSUME ServerTypeOK, NEW c \in Clients, NEW r \in Requests, Call(c, r)
  PROVE  ServerTypeOK' /\ (RequestInHand => RequestInHand')
PROOF
<1>1. r \in Request
  BY ServerAssumption
<1>2. UNCHANGED << monitor, currentHelper, dispatcher, stopped, ledBrightness, portVars,
                   sendVars, raced >>
  BY DEF Call
<1>3. ASSUME NEW k \in Kinds, NEW next \in { "nothing", "GAME" }, NewHelper(c, k, next)
      PROVE  /\ ClientsTypeOK' /\ kindOf' \in [Helpers -> Kinds \cup { "unborn" }]
             /\ RequestInHand => RequestInHand'
  BY <1>3 DEF NewHelper, ServerTypeOK, ClientsTypeOK, HelpersTypeOK, Goto, RequestInHand
<1>4. ASSUME NEW k \in { "COLOR", "GAME" }, NEW next \in { "nothing", "GAME" },
             UseHelper(c, k, next)
      PROVE  /\ ClientsTypeOK' /\ kindOf' \in [Helpers -> Kinds \cup { "unborn" }]
             /\ RequestInHand => RequestInHand'
  <2>1. CASE CurrentKind = k
    BY <1>4, <2>1 DEF UseHelper, ServerTypeOK, ClientsTypeOK, HelpersTypeOK, Goto,
                      RequestInHand
  <2>2. CASE CurrentKind # k
    BY <1>3, <1>4, <2>2 DEF UseHelper, Kinds
  <2> QED
    BY <2>1, <2>2
<1>5. ASSUME NEW l \in Levels, CallSetBrightness(c, l)
      PROVE  /\ ClientsTypeOK' /\ kindOf' \in [Helpers -> Kinds \cup { "unborn" }]
             /\ RequestInHand => RequestInHand'
  BY <1>5 DEF CallSetBrightness, ServerTypeOK, ClientsTypeOK, HelpersTypeOK, Goto,
              RequestInHand
<1>6. /\ ClientsTypeOK' /\ kindOf' \in [Helpers -> Kinds \cup { "unborn" }]
      /\ RequestInHand => RequestInHand'
  <2>1. CASE r.act = "mode"
    BY <1>1, <1>3, <2>1 DEF Call, Request, Kinds
  <2>2. CASE r.act = "color"
    BY <1>4, <2>2 DEF Call
  <2>3. CASE r.act = "game"
    BY <1>4, <2>3 DEF Call
  <2>4. CASE r.act = "brightness"
    <3>1. Clip(r.level, r.low, MaxLevel) \in Levels
      BY <1>1, <2>4, ClipInLevels DEF Request
    <3> QED
      BY <1>5, <2>4, <3>1 DEF Call
  <2>5. CASE r.act = "relative"
    <3>1. Clip(ledBrightness + r.change, 1, MaxLevel) \in Levels
      BY <1>1, <2>5, ClipInLevels, ServerAssumption DEF Request, ServerTypeOK, Levels
    <3> QED
      BY <1>5, <2>5, <3>1 DEF Call
  <2>6. CASE r.act = "freeze"
    BY <2>6 DEF Call, ServerTypeOK, ClientsTypeOK, HelpersTypeOK, Goto, RequestInHand
  <2>7. r.act \in { "mode", "color", "game", "brightness", "relative", "freeze" }
    BY <1>1 DEF Request
  <2> QED
    BY <2>1, <2>2, <2>3, <2>4, <2>5, <2>6, <2>7
<1> QED
  BY <1>2, <1>6
  DEF ServerTypeOK, HelpersTypeOK, SendTypeOK, portVars, sendVars

(* A step of a client inside a request leaves every variable well-typed.   *)
LEMMA ProceedTyped ==
  ASSUME ServerTypeOK, RequestInHand, BacklogBounded, NEW c \in Clients,
         Enter(c) \/ Proceed(c)
  PROVE  ServerTypeOK'
PROOF
<1> USE DEF ServerTypeOK, portVars, Labels
<1>1. CASE EnterSend(c)
  BY <1>1, ClientMoves DEF EnterSend, helperVars, sendVars, HelpersTypeOK, SendTypeOK
<1>2. CASE EnterSetHelper(c)
  BY <1>2, ClientMoves DEF EnterSetHelper, helperVars, sendVars, HelpersTypeOK, SendTypeOK
<1>3. CASE Cast(c)
  <2>1. ClientsTypeOK'
    BY <1>3, ClientMoves DEF Cast, ClientsTypeOK, HelpersTypeOK, Goto
  <2> QED
    BY <1>3, <2>1 DEF Cast, helperVars, sendVars, HelpersTypeOK, SendTypeOK
<1>4. CASE Check(c)
  BY <1>4, ClientMoves DEF Check, helperVars, sendVars, HelpersTypeOK, SendTypeOK
<1>5. CASE Assign(c)
  BY <1>5, ClientMoves DEF Assign, RequestInHand, helperVars, sendVars, HelpersTypeOK, SendTypeOK
<1>6. CASE Build(c)
  <2>1. ClientsTypeOK'
    BY <1>6 DEF Build, ClientsTypeOK, Goto
  <2> QED
    BY <1>6, <2>1 DEF Build, helperVars, sendVars, HelpersTypeOK, SendTypeOK
<1>7. CASE Write(c)
  <2>1. todo[c] \in { "brightness", "freeze", "COLOR", "GAME" }
    BY <1>7 DEF Write, RequestInHand, ClientsTypeOK
  <2>2. \E h \in Helpers \cup {0} : \E l \in Levels \cup { NoLevel } : SendPacket(h, l)
    BY <1>7, <2>1 DEF Write, ClientsTypeOK
  <2>3. SendTypeOK'
    BY <2>2, SendPacketKeeps DEF HelpersTypeOK
  <2> QED
    BY <1>7, <2>3, ClientMoves DEF Write, helperVars, HelpersTypeOK
<1>8. CASE Terminate(c)
  <2>1. HelpersTypeOK'
    BY <1>8 DEF Terminate, HelpersTypeOK, HasDispatcher
  <2>2. ClientsTypeOK'
    BY <1>8, ClientMoves DEF Terminate
  <2> QED
    BY <1>8, <2>1, <2>2 DEF Terminate, sendVars, SendTypeOK
<1>9. CASE Join(c) \/ JoinTimeout(c)
  BY <1>9, ClientMoves DEF Join, JoinTimeout, helperVars, sendVars, HelpersTypeOK, SendTypeOK
<1>10. CASE Install(c)
  <2>1. HelpersTypeOK'
    BY <1>10 DEF Install, HelpersTypeOK, ClientsTypeOK
  <2>2. ClientsTypeOK'
    BY <1>10, ClientMoves DEF Install
  <2> QED
    BY <1>10, <2>1, <2>2 DEF Install, sendVars, SendTypeOK
<1>11. CASE Start(c)
  <2>1. ClientsTypeOK'
    BY <1>11, ClientMoves DEF Start
  <2>2. dispatcher' \in [Helpers -> { "none", "read", "send", "write", "done" }]
    BY <1>11 DEF Start, HelpersTypeOK, CurrentKind
  <2>3. SendTypeOK'
    <3>1. CASE SendPacket(currentHelper, NoLevel)
      BY <3>1, SendPacketKeeps DEF HelpersTypeOK
    <3>2. CASE UNCHANGED sendVars
      BY <3>2 DEF sendVars, SendTypeOK
    <3> QED
      BY <1>11, <3>1, <3>2 DEF Start
  <2> QED
    BY <1>11, <2>1, <2>2, <2>3 DEF Start, HelpersTypeOK
<1> QED
  BY <1>1, <1>2, <1>3, <1>4, <1>5, <1>6, <1>7, <1>8, <1>9, <1>10, <1>11
  DEF Enter, Proceed

(* So does a step of an audio thread or of the port.                       *)
LEMMA OthersTyped ==
  ASSUME ServerTypeOK, BacklogBounded,
         (\E h \in Helpers : Dispatch(h)) \/ Drain \/ Unplug \/ Replug
  PROVE  ServerTypeOK'
PROOF
<1> USE DEF ServerTypeOK, portVars, clientVars, ClientsTypeOK
<1>1. ASSUME NEW h \in Helpers, DispatcherRead(h) PROVE ServerTypeOK'
  BY <1>1 DEF DispatcherRead, HelpersTypeOK, sendVars, SendTypeOK
<1>2. ASSUME NEW h \in Helpers, DispatcherEnter(h) PROVE ServerTypeOK'
  BY <1>2 DEF DispatcherEnter, HelpersTypeOK, sendVars, SendTypeOK
<1>3. ASSUME NEW h \in Helpers, DispatcherWrite(h) PROVE ServerTypeOK'
  <2>1. SendTypeOK'
    BY <1>3, SendPacketKeeps DEF DispatcherWrite, HelpersTypeOK
  <2>2. HelpersTypeOK'
    BY <1>3 DEF DispatcherWrite, HelpersTypeOK
  <2> QED
    BY <1>3, <2>1, <2>2 DEF DispatcherWrite
<1>4. CASE Drain
  BY <1>4 DEF Drain, helperVars, HelpersTypeOK, SendTypeOK
<1>5. CASE Unplug
  <2>1. unplugs' \in 0 .. MaxUnplugs
    BY <1>5, ServerAssumption DEF Unplug
  <2> QED
    BY <1>5, <2>1 DEF Unplug, helperVars, HelpersTypeOK, SendTypeOK
<1>6. CASE Replug
  BY <1>6 DEF Replug, helperVars, HelpersTypeOK, sendVars, SendTypeOK
<1> QED
  BY <1>1, <1>2, <1>3, <1>4, <1>5, <1>6 DEF Dispatch

LEMMA RequestStaysInHand ==
  ASSUME ServerTypeOK, RequestInHand, ServerNext
  PROVE  RequestInHand'
PROOF
<1>1. ASSUME NEW c \in Clients, NEW r \in Requests, Call(c, r) PROVE RequestInHand'
  BY <1>1, CallTyped
<1> USE DEF ServerTypeOK, ClientsTypeOK, RequestInHand, Move, Goto, Finish
<1>2. ASSUME NEW c \in Clients, Enter(c) PROVE RequestInHand'
  BY <1>2 DEF Enter, EnterSend, EnterSetHelper
<1>3. ASSUME NEW c \in Clients, Proceed(c) PROVE RequestInHand'
  <2>1. CASE Cast(c)
    BY <2>1 DEF Cast, CurrentKind, HelpersTypeOK, Kinds
  <2>2. CASE Check(c) \/ Assign(c) \/ Build(c)
    BY <2>2 DEF Check, Assign, Build
  <2>3. CASE Write(c)
    BY <2>3 DEF Write
  <2>4. CASE Start(c)
    BY <2>4 DEF Start
  <2>5. CASE Terminate(c) \/ Join(c) \/ JoinTimeout(c) \/ Install(c)
    BY <2>5 DEF Terminate, Join, JoinTimeout, Install
  <2> QED
    BY <1>3, <2>1, <2>2, <2>3, <2>4, <2>5 DEF Proceed
<1>4. ASSUME NEW h \in Helpers, Dispatch(h) PROVE RequestInHand'
  BY <1>4 DEF Dispatch, DispatcherRead, DispatcherEnter, DispatcherWrite, clientVars
<1>5. CASE Drain \/ Unplug \/ Replug
  BY <1>5 DEF Drain, Unplug, Replug, clientVars
<1> QED
  BY <1>1, <1>2, <1>3, <1>4, <1>5 DEF ServerNext

(* Only the owner of the monitor leaves it, so who is inside it stays so.  *)
LEMMA MonitorStaysHeld ==
  ASSUME ServerTypeOK, MonitorHeld, ServerNext
  PROVE  MonitorHeld'
PROOF
<1> USE DEF ServerTypeOK, ClientsTypeOK, HelpersTypeOK, MonitorHeld, Move, Goto, Finish
<1>1. /\ Free \notin Clients \cup Helpers
      /\ Clients \cap Helpers = {}
  BY ServerAssumption
<1>2. ASSUME NEW c \in Clients, NEW r \in Requests, Call(c, r) PROVE MonitorHeld'
  <2>1. /\ pc' = [pc EXCEPT ![c] = "idle"] \/ pc' = [pc EXCEPT ![c] = "cast"]
           \/ pc' = [pc EXCEPT ![c] = "check"] \/ pc' = [pc EXCEPT ![c] = "lock"]
           \/ pc' = [pc EXCEPT ![c] = "send"]
        /\ UNCHANGED << monitor, dispatcher >>
    BY <1>2, ServerAssumption
    DEF Call, NewHelper, UseHelper, CallSetBrightness, Request
  <2> QED
    BY <2>1
<1>3. ASSUME NEW c \in Clients, Enter(c) PROVE MonitorHeld'
  BY <1>1, <1>3 DEF Enter, EnterSend, EnterSetHelper, helperVars
<1>4. ASSUME NEW c \in Clients, Proceed(c) PROVE MonitorHeld'
  <2>1. CASE Cast(c) \/ Check(c) \/ Assign(c) \/ Build(c)
    BY <2>1 DEF Cast, Check, Assign, Build, helperVars
  <2>2. CASE Write(c)
    BY <1>1, <2>2 DEF Write, helperVars
  <2>3. CASE Terminate(c) \/ Join(c) \/ JoinTimeout(c) \/ Install(c)
    BY <2>3 DEF Terminate, Join, JoinTimeout, Install, helperVars
  <2>4. CASE Start(c)
    <3>1. /\ monitor = c /\ monitor' = Free
          /\ pc' = [pc EXCEPT ![c] = "cast"] \/ pc' = [pc EXCEPT ![c] = "idle"]
      BY <2>4 DEF Start
    <3>2. \A h \in Helpers : dispatcher'[h] = "write" => dispatcher[h] = "write"
      BY <2>4 DEF Start, sendVars
    <3> QED
      BY <1>1, <3>1, <3>2
  <2> QED
    BY <1>4, <2>1, <2>2, <2>3, <2>4 DEF Proceed
<1>5. ASSUME NEW h \in Helpers, Dispatch(h) PROVE MonitorHeld'
  BY <1>1, <1>5
  DEF Dispatch, DispatcherRead, DispatcherEnter, DispatcherWrite, clientVars
<1>6. CASE Drain \/ Unplug \/ Replug
  BY <1>6 DEF Drain, Unplug, Replug, clientVars, helperVars
<1> QED
  BY <1>2, <1>3, <1>4, <1>5, <1>6 DEF ServerNext

LEMMA BacklogStaysBounded ==
  ASSUME ServerTypeOK, RequestInHand, BacklogBounded, ServerNext
  PROVE  BacklogBounded'
PROOF
<1>1. CASE UNCHANGED sendVars
  BY <1>1 DEF sendVars, BacklogBounded
<1>2. ASSUME NEW h \in Helpers \cup {0}, NEW l \in Levels \cup { NoLevel },
             SendPacket(h, l)
      PROVE  BacklogBounded'
  BY <1>2, SendPacketKeeps DEF ServerTypeOK, HelpersTypeOK
<1>3. ASSUME NEW c \in Clients, Write(c) PROVE BacklogBounded'
  <2>1. todo[c] \in { "brightness", "freeze", "COLOR", "GAME" }
    BY <1>3 DEF Write, RequestInHand, ServerTypeOK, ClientsTypeOK
  <2> QED
    BY <1>2, <1>3, <2>1 DEF Write, ServerTypeOK, ClientsTypeOK
<1>4. ASSUME NEW c \in Clients, Start(c) PROVE BacklogBounded'
  BY <1>1, <1>2, <1>4 DEF Start, ServerTypeOK, HelpersTypeOK
<1>5. ASSUME NEW h \in Helpers, DispatcherWrite(h) PROVE BacklogBounded'
  BY <1>2, <1>5 DEF DispatcherWrite
<1>6. CASE Drain \/ Unplug
  BY <1>6, ServerAssumption DEF Drain, Unplug, BacklogBounded, ServerTypeOK, SendTypeOK
<1> QED
  BY <1>1, <1>3, <1>4, <1>5, <1>6
  DEF ServerNext, Call, Enter, EnterSend, EnterSetHelper, Proceed, Cast, Check, Assign,
      Build, Terminate, Join, JoinTimeout, Install, Dispatch, DispatcherRead,
      DispatcherEnter, Replug

(* A step that leaves the helpers alone, and lets no client into the part  *)
(* of setHelper where it relies on a stopped audio thread.                 *)
LEMMA HelpersUntouched ==
  ASSUME ToldToStop, OnlyCurrentDispatches, UNCHANGED << currentHelper, dispatcher, stopped >>,
         \A c \in Clients : pc'[c] \in { "join", "install" } => pc[c] \in { "join", "install" }
  PROVE  ToldToStop' /\ OnlyCurrentDispatches'
PROOF
  BY DEF ToldToStop, OnlyCurrentDispatches, HasDispatcher

(* Replacing a helper never leaves an audio thread that runs on unaware.   *)
LEMMA ReplacedAreTold ==
  ASSUME ServerTypeOK, MonitorHeld, ToldToStop, OnlyCurrentDispatches, ServerNext
  PROVE  ToldToStop' /\ OnlyCurrentDispatches'
PROOF
<1> USE DEF ServerTypeOK, ClientsTypeOK, HelpersTypeOK
<1>1. ASSUME NEW c \in Clients, NEW r \in Requests, Call(c, r)
      PROVE  ToldToStop' /\ OnlyCurrentDispatches'
  <2>1. \/ pc' = [pc EXCEPT ![c] = "idle"] \/ pc' = [pc EXCEPT ![c] = "cast"]
        \/ pc' = [pc EXCEPT ![c] = "check"] \/ pc' = [pc EXCEPT ![c] = "lock"]
        \/ pc' = [pc EXCEPT ![c] = "send"]
    BY <1>1, ServerAssumption
    DEF Call, NewHelper, UseHelper, CallSetBrightness, Request, Goto, Finish
  <2>2. \A d \in Clients : pc'[d] \in { "join", "install" } => pc[d] \in { "join", "install" }
    BY <2>1
  <2> QED
    BY <1>1, <2>2, HelpersUntouched DEF Call
<1>2. ASSUME NEW c \in Clients, Enter(c) PROVE ToldToStop' /\ OnlyCurrentDispatches'
  BY <1>2, HelpersUntouched DEF Enter, EnterSend, EnterSetHelper, helperVars, Move, Goto
<1>3. ASSUME NEW c \in Clients, Proceed(c) PROVE ToldToStop' /\ OnlyCurrentDispatches'
  <2>1. CASE Cast(c) \/ Check(c) \/ Assign(c) \/ Build(c) \/ Write(c)
    BY <2>1, HelpersUntouched
    DEF Cast, Check, Assign, Build, Write, helperVars, Move, Goto, Finish
  <2>2. CASE Terminate(c)
    <3>1. /\ UNCHANGED << currentHelper, dispatcher >>
          /\ stopped' = IF HasDispatcher THEN stopped \cup { currentHelper } ELSE stopped
      BY <2>2 DEF Terminate
    <3> QED
      BY <3>1 DEF ToldToStop, OnlyCurrentDispatches, HasDispatcher
  <2>3. CASE Join(c) \/ JoinTimeout(c)
    BY <2>3, HelpersUntouched DEF Join, JoinTimeout, helperVars, Move, Goto
  <2>4. CASE Install(c)
    <3>1. /\ pc' = [pc EXCEPT ![c] = "start"] /\ pc[c] = "install"
          /\ UNCHANGED << dispatcher, stopped >>
      BY <2>4 DEF Install, Move, Goto
    <3>2. \A d \in Clients : pc'[d] \notin { "join", "install" }
      BY <3>1 DEF MonitorHeld
    <3>3. ToldToStop'
      BY <3>2 DEF ToldToStop
    <3>4. HasDispatcher => currentHelper \in stopped
      BY <3>1 DEF ToldToStop
    <3>5. OnlyCurrentDispatches'
      BY <3>1, <3>4, ServerAssumption DEF OnlyCurrentDispatches, HasDispatcher, Helpers
    <3> QED
      BY <3>3, <3>5
  <2>5. CASE Start(c)
    <3>1. /\ pc' = [pc EXCEPT ![c] = "cast"] \/ pc' = [pc EXCEPT ![c] = "idle"]
          /\ pc[c] = "start"
          /\ UNCHANGED << currentHelper, stopped >>
          /\ \A h \in Helpers : h # currentHelper => dispatcher'[h] = dispatcher[h]
      BY <2>5 DEF Start, Move, Finish, Goto
    <3>2. \A d \in Clients : pc'[d] \notin { "join", "install" }
      BY <3>1 DEF MonitorHeld
    <3> QED
      BY <3>1, <3>2 DEF ToldToStop, OnlyCurrentDispatches
  <2> QED
    BY <1>3, <2>1, <2>2, <2>3, <2>4, <2>5 DEF Proceed
<1>4. ASSUME NEW h \in Helpers, Dispatch(h) PROVE ToldToStop' /\ OnlyCurrentDispatches'
  <2>1. /\ UNCHANGED << pc, currentHelper, stopped >>
        /\ \A g \in Helpers : dispatcher'[g] = "none" <=> dispatcher[g] = "none"
        /\ \A g \in Helpers : dispatcher[g] = "done" => dispatcher'[g] = "done"
    BY <1>4
    DEF Dispatch, DispatcherRead, DispatcherEnter, DispatcherWrite, clientVars
  <2> QED
    BY <2>1 DEF ToldToStop, OnlyCurrentDispatches, HasDispatcher
<1>5. CASE Drain \/ Unplug \/ Replug
  BY <1>5, HelpersUntouched DEF Drain, Unplug, Replug, clientVars, helperVars
<1> QED
  BY <1>1, <1>2, <1>3, <1>4, <1>5 DEF ServerNext

-----------------------------------------------------------------------------
(* The inductive invariant holds whatever the threads do.                  *)
THEOREM ServerInvariant == ServerSpec => []ServerInv
PROOF
<1>1. ServerInit => ServerInv
  <2> SUFFICES ASSUME ServerInit
               PROVE  ServerInv
    OBVIOUS
  <2>0. dropped \in BOOLEAN /\ raced \in BOOLEAN /\ portOpen \in BOOLEAN
    BY DEF ServerInit
  <2> USE ServerAssumption DEF ServerInit
  <2>1. ClientsTypeOK /\ HelpersTypeOK
    BY DEF ClientsTypeOK, HelpersTypeOK
  <2>2. ServerTypeOK
    BY <2>0, <2>1 DEF ServerTypeOK, SendTypeOK
  <2>3. RequestInHand /\ MonitorHeld /\ BacklogBounded
    BY DEF RequestInHand, MonitorHeld, BacklogBounded
  <2>4. ToldToStop /\ OnlyCurrentDispatches
    BY DEF ToldToStop, OnlyCurrentDispatches, HasDispatcher
  <2> QED
    BY <2>2, <2>3, <2>4 DEF ServerInv
<1>2. ServerInv /\ [ServerNext]_serverVars => ServerInv'
  <2> SUFFICES ASSUME ServerInv, [ServerNext]_serverVars
               PROVE  ServerInv'
    OBVIOUS
  <2> USE DEF ServerInv
  <2>1. CASE ServerNext
    <3>1. ServerTypeOK'
      BY <2>1, CallTyped, ProceedTyped, OthersTyped DEF ServerNext
    <3> QED
      BY <2>1, <3>1, RequestStaysInHand, MonitorStaysHeld, BacklogStaysBounded,
         ReplacedAreTold
  <2>2. CASE UNCHANGED serverVars
    BY <2>2
    DEF serverVars, clientVars, helperVars, portVars, sendVars, ServerTypeOK,
        ClientsTypeOK, HelpersTypeOK, SendTypeOK, RequestInHand, MonitorHeld,
        BacklogBounded, ToldToStop, OnlyCurrentDispatches, HasDispatcher
  <2> QED
    BY <2>1, <2>2
<1> QED
  BY <1>1, <1>2, PTL DEF ServerSpec

(* The server's state is always well-typed.                                *)
THEOREM ServerTypeCorrect == ServerSpec => []ServerTypeOK
PROOF
  BY ServerInvariant, PTL DEF ServerInv

(* sendPacket and setHelper exclude each other, so no two frames are ever  *)
(* interleaved on the line.                                                *)
THEOREM MonitorExcludes == ServerSpec => []MonitorHeld
PROOF
  BY ServerInvariant, PTL DEF ServerInv

(* The counter of blocking packets keeps the backlog of the port bounded,  *)
(* for any number of threads that send.                                    *)
THEOREM BacklogStaysSmall == ServerSpec => []BacklogBounded
PROOF
  BY ServerInvariant, PTL DEF ServerInv

(* No audio thread outlives its helper untold.                             *)
THEOREM ReplacedHelpersAreTold == ServerSpec => []OnlyCurrentDispatches
PROOF
  BY ServerInvariant, PTL DEF ServerInv

-----------------------------------------------------------------------------
(* What makes the last brightness on the line the remembered one: as long  *)
(* as no two calls of setBrightness overlap, the one under way carries the *)
(* level it stored, and only between its store and its write may line and  *)
(* server differ.                                                          *)
LevelMatches ==
  \/ lastLevel = ledBrightness
  \/ lastLevel = NoLevel /\ ledBrightness = InitialLevel

SendingBrightness ==
  { c \in Clients : pc[c] \in { "send", "write" } /\ todo[c] = "brightness" }

OneSetsBrightness == \A c, d \in SettingBrightness : c = d

CarriesLevel == \A c \in SendingBrightness : level[c] = ledBrightness

StoredNotSent == \E c \in SettingBrightness : pc[c] # "assign"

BrightnessInv ==
  ~raced => /\ OneSetsBrightness
            /\ CarriesLevel
            /\ dropped \/ LevelMatches \/ StoredNotSent

(* A step of no interest to the brightness.                                *)
LEMMA BrightnessUntouched ==
  ASSUME BrightnessInv, ServerTypeOK, ServerTypeOK',
         UNCHANGED << ledBrightness, lastLevel, raced >>, dropped => dropped',
         SettingBrightness' = SettingBrightness,
         \A c \in SendingBrightness' : c \in SendingBrightness /\ level'[c] = level[c],
         \A c \in SettingBrightness : pc'[c] = "assign" => pc[c] = "assign"
  PROVE  BrightnessInv'
PROOF
<1> SUFFICES ASSUME ~raced
             PROVE  OneSetsBrightness' /\ CarriesLevel'
                    /\ (dropped \/ LevelMatches \/ StoredNotSent)'
  BY DEF BrightnessInv
<1>1. /\ OneSetsBrightness /\ CarriesLevel
      /\ dropped \/ LevelMatches \/ StoredNotSent
  BY DEF BrightnessInv
<1>2. OneSetsBrightness'
  BY <1>1 DEF OneSetsBrightness
<1>3. CarriesLevel'
  BY <1>1 DEF CarriesLevel
<1>4. (dropped \/ LevelMatches \/ StoredNotSent)'
  BY <1>1 DEF LevelMatches, StoredNotSent
<1> QED
  BY <1>2, <1>3, <1>4

(* Packets of the helpers and FREEZE_FRAME do not change the level.        *)
LEMMA OtherPackets ==
  ASSUME NEW h, SendPacket(h, NoLevel), ServerTypeOK
  PROVE  lastLevel' = lastLevel /\ (dropped => dropped')
PROOF
<1>1. CASE ThrowAway
  BY <1>1 DEF ThrowAway
<1>2. CASE PutOnLine(h, NoLevel)
  BY <1>2 DEF PutOnLine
<1> QED
  BY <1>1, <1>2 DEF SendPacket

LEMMA BrightnessKept ==
  ASSUME ServerTypeOK, ServerTypeOK', RequestInHand, BrightnessInv, ServerNext
  PROVE  BrightnessInv'
PROOF
<1> USE DEF ClientsTypeOK, SettingBrightness, SendingBrightness, Move, Goto, Finish
<1>0. ClientsTypeOK /\ dropped \in BOOLEAN /\ raced \in BOOLEAN
      /\ currentHelper \in Helpers \cup {0}
  BY DEF ServerTypeOK, SendTypeOK, HelpersTypeOK
<1>1. ASSUME NEW c \in Clients, NEW r \in Requests, Call(c, r) PROVE BrightnessInv'
  <2> DEFINE Elsewhere ==
        /\ \A d \in Clients \ {c} : /\ pc'[d] = pc[d] /\ todo'[d] = todo[d]
                                   /\ level'[d] = level[d]
        /\ \/ pc'[c] \in { "lock", "cast", "check" }
           \/ pc'[c] = "send" /\ todo'[c] = "freeze"
  <2>1. /\ UNCHANGED << ledBrightness, lastLevel, raced, dropped >>
        /\ pc[c] = "idle"
    BY <1>1 DEF Call, sendVars
  <2>2. ASSUME NEW k, NEW next, NewHelper(c, k, next) PROVE Elsewhere
    BY <1>0, <2>2 DEF NewHelper
  <2>3. ASSUME NEW k, NEW next, UseHelper(c, k, next) PROVE Elsewhere
    BY <1>0, <2>2, <2>3 DEF UseHelper
  <2>4. ASSUME NEW l, CallSetBrightness(c, l) PROVE Elsewhere
    BY <1>0, <2>4 DEF CallSetBrightness
  <2>5. Elsewhere
    <3> HIDE DEF Elsewhere
    <3>1. r.act \in { "mode", "color", "game", "brightness", "relative", "freeze" }
      BY ServerAssumption DEF Request
    <3>2. CASE r.act = "freeze"
      BY <1>0, <1>1, <3>2 DEF Call, Elsewhere
    <3> QED
      BY <1>1, <2>2, <2>3, <2>4, <3>1, <3>2 DEF Call
  <2> QED
    BY <1>0, <2>1, <2>5, BrightnessUntouched
<1>2. ASSUME NEW c \in Clients, Enter(c) PROVE BrightnessInv'
  BY <1>0, <1>2, BrightnessUntouched DEF Enter, EnterSend, EnterSetHelper, sendVars
<1>3. ASSUME NEW c \in Clients, Cast(c) PROVE BrightnessInv'
  <2>1. /\ pc[c] = "cast" /\ UNCHANGED << ledBrightness, lastLevel, raced, dropped >>
        /\ \/ pc' = [pc EXCEPT ![c] = "send"] /\ CurrentKind = todo[c]
              /\ UNCHANGED << todo, level >>
           \/ Finish(c)
    BY <1>3 DEF Cast, sendVars
  <2>2. CurrentKind # "brightness"
    BY DEF CurrentKind, ServerTypeOK, HelpersTypeOK, Kinds
  <2> QED
    BY <1>0, <2>1, <2>2, BrightnessUntouched
<1>4. ASSUME NEW c \in Clients, Check(c) PROVE BrightnessInv'
  <2>1. CASE ledBrightness = level[c]
    BY <1>0, <1>4, <2>1, BrightnessUntouched DEF Check, sendVars
  <2>2. CASE ledBrightness # level[c]
    <3>1. /\ pc[c] = "check" /\ pc' = [pc EXCEPT ![c] = "assign"]
          /\ UNCHANGED << todo, level, ledBrightness, lastLevel, dropped >>
          /\ ~raced' => ~raced /\ SettingBrightness = {}
      BY <1>0, <1>4, <2>2 DEF Check, sendVars
    <3>2. SUFFICES ASSUME ~raced', SettingBrightness = {}, ~raced
                   PROVE  OneSetsBrightness' /\ CarriesLevel' /\ (dropped \/ LevelMatches)'
      BY <3>1 DEF BrightnessInv
    <3>3. dropped \/ LevelMatches
      BY <3>2 DEF BrightnessInv, StoredNotSent
    <3>4. OneSetsBrightness' /\ CarriesLevel'
      BY <1>0, <3>1, <3>2 DEF OneSetsBrightness, CarriesLevel
    <3> QED
      BY <3>1, <3>3, <3>4 DEF LevelMatches
  <2> QED
    BY <2>1, <2>2
<1>5. ASSUME NEW c \in Clients, Assign(c) PROVE BrightnessInv'
  <2>1. /\ pc[c] = "assign" /\ pc' = [pc EXCEPT ![c] = "build"]
        /\ UNCHANGED << todo, level, raced >>
    BY <1>5 DEF Assign
  <2>2. SUFFICES ASSUME ~raced
                 PROVE  OneSetsBrightness' /\ CarriesLevel' /\ StoredNotSent'
    BY <2>1 DEF BrightnessInv
  <2>3. OneSetsBrightness
    BY <2>2 DEF BrightnessInv
  <2>4. OneSetsBrightness' /\ CarriesLevel'
    BY <1>0, <2>1, <2>3 DEF OneSetsBrightness, CarriesLevel
  <2>5. StoredNotSent'
    BY <1>0, <2>1 DEF StoredNotSent
  <2> QED
    BY <2>4, <2>5
<1>6. ASSUME NEW c \in Clients, Build(c) PROVE BrightnessInv'
  <2>1. /\ pc[c] = "build" /\ pc' = [pc EXCEPT ![c] = "send"]
        /\ level' = [level EXCEPT ![c] = ledBrightness]
        /\ UNCHANGED << todo, raced, ledBrightness >>
    BY <1>6 DEF Build
  <2>2. SUFFICES ASSUME ~raced
                 PROVE  OneSetsBrightness' /\ CarriesLevel' /\ StoredNotSent'
    BY <2>1 DEF BrightnessInv
  <2>3. OneSetsBrightness
    BY <2>2 DEF BrightnessInv
  <2>4. OneSetsBrightness' /\ CarriesLevel'
    BY <1>0, <2>1, <2>3 DEF OneSetsBrightness, CarriesLevel
  <2>5. StoredNotSent'
    BY <1>0, <2>1 DEF StoredNotSent, RequestInHand
  <2> QED
    BY <2>4, <2>5
<1>7. ASSUME NEW c \in Clients, Write(c) PROVE BrightnessInv'
  <2>1. /\ pc[c] = "write" /\ pc' = [pc EXCEPT ![c] = "idle"]
        /\ todo' = [todo EXCEPT ![c] = "nothing"] /\ level' = [level EXCEPT ![c] = NoLevel]
        /\ UNCHANGED << raced, ledBrightness >>
    BY <1>7 DEF Write
  <2>2. CASE todo[c] = "brightness"
    <3>1. SUFFICES ASSUME ~raced
                   PROVE  OneSetsBrightness' /\ CarriesLevel' /\ (dropped \/ LevelMatches)'
      BY <2>1 DEF BrightnessInv
    <3>2. OneSetsBrightness /\ level[c] = ledBrightness
      BY <1>0, <2>1, <2>2, <3>1 DEF BrightnessInv, CarriesLevel
    <3>3. OneSetsBrightness' /\ CarriesLevel'
      BY <1>0, <2>1, <2>2, <3>2 DEF OneSetsBrightness, CarriesLevel
    <3>4. ThrowAway \/ PutOnLine(0, level[c])
      BY <1>7, <2>2 DEF Write, SendPacket
    <3>5. dropped' \/ lastLevel' = ledBrightness
      BY <3>2, <3>4, ServerAssumption DEF ThrowAway, PutOnLine, ServerTypeOK
    <3> QED
      BY <2>1, <3>3, <3>5 DEF LevelMatches
  <2>3. CASE todo[c] # "brightness"
    <3>1. todo[c] \in { "freeze", "COLOR", "GAME" }
      BY <1>0, <2>1, <2>3 DEF RequestInHand
    <3>2. \E h : SendPacket(h, NoLevel)
      BY <1>7, <3>1 DEF Write
    <3>3. lastLevel' = lastLevel /\ (dropped => dropped')
      BY <3>2, OtherPackets
    <3> QED
      BY <1>0, <2>1, <2>3, <3>3, BrightnessUntouched
  <2> QED
    BY <2>2, <2>3
<1>8. ASSUME NEW c \in Clients, Start(c) PROVE BrightnessInv'
  <2>1. /\ pc[c] = "start" /\ UNCHANGED << raced, ledBrightness >>
        /\ (todo[c] = "GAME" /\ Move(c, "cast")) \/ Finish(c)
    BY <1>8 DEF Start
  <2>2. lastLevel' = lastLevel /\ (dropped => dropped')
    BY <1>8, OtherPackets DEF Start, sendVars
  <2> QED
    BY <1>0, <2>1, <2>2, BrightnessUntouched
<1>9. ASSUME NEW c \in Clients, Terminate(c) \/ Join(c) \/ JoinTimeout(c) \/ Install(c)
      PROVE  BrightnessInv'
  BY <1>0, <1>9, BrightnessUntouched DEF Terminate, Join, JoinTimeout, Install, sendVars
<1>10. ASSUME NEW h \in Helpers, Dispatch(h) PROVE BrightnessInv'
  <2>1. lastLevel' = lastLevel /\ (dropped => dropped')
    BY <1>10, OtherPackets
    DEF Dispatch, DispatcherRead, DispatcherEnter, DispatcherWrite, sendVars
  <2>2. UNCHANGED << clientVars, ledBrightness, raced >>
    BY <1>10 DEF Dispatch, DispatcherRead, DispatcherEnter, DispatcherWrite
  <2> QED
    BY <1>0, <2>1, <2>2, BrightnessUntouched DEF clientVars
<1>11. CASE Drain \/ Unplug \/ Replug
  BY <1>0, <1>11, BrightnessUntouched DEF Drain, Unplug, Replug, clientVars, sendVars
<1> QED
  BY <1>1, <1>2, <1>3, <1>4, <1>5, <1>6, <1>7, <1>8, <1>9, <1>10, <1>11
  DEF ServerNext, Proceed

(* Between requests the line carries the remembered brightness, for any    *)
(* number of clients whose calls of setBrightness do not overlap: so the   *)
(* calls dropped as redundant are redundant.                               *)
THEOREM RememberedBrightnessOnLine == ServerSpec => []BrightnessOnLine
PROOF
<1>1. ServerInit => BrightnessInv
  BY DEF ServerInit, BrightnessInv, OneSetsBrightness, CarriesLevel, LevelMatches,
         SettingBrightness, SendingBrightness
<1>2. ServerInv /\ ServerInv' /\ BrightnessInv /\ [ServerNext]_serverVars => BrightnessInv'
  <2>1. CASE ServerNext
    BY <2>1, BrightnessKept DEF ServerInv
  <2>2. CASE UNCHANGED serverVars
    BY <2>2
    DEF serverVars, clientVars, sendVars, BrightnessInv, OneSetsBrightness, CarriesLevel,
        LevelMatches, StoredNotSent, SettingBrightness, SendingBrightness
  <2> QED
    BY <2>1, <2>2
<1>3. BrightnessInv => BrightnessOnLine
  BY DEF BrightnessInv, BrightnessOnLine, Quiet, StoredNotSent, SettingBrightness,
         LevelMatches
<1> QED
  BY <1>1, <1>2, <1>3, ServerInvariant, PTL DEF ServerSpec

-----------------------------------------------------------------------------
(* Which helper may still write: a new helper is known to the thread that  *)
(* brings it alone until setHelper installs it; once replaced, a helper    *)
(* never becomes current again, so all that can come late of it is what    *)
(* its audio thread, or a client with a reference to it, has begun.        *)
Replacing == { "lock", "terminate", "join", "install" }

Brings(c, h) == pc[c] \in Replacing /\ mine[c] = h

Unused(h) == kindOf[h] = "unborn" \/ \E c \in Clients : Brings(c, h)

Sending(c) == pc[c] \in { "send", "write" } /\ todo[c] \in { "COLOR", "GAME" }

Holders(h) == { c \in Clients : Sending(c) /\ mine[c] = h }

HelpersBorn ==
  /\ currentHelper # 0 => kindOf[currentHelper] # "unborn"
  /\ \A c \in Clients :
       pc[c] \in Replacing => mine[c] \in Helpers /\ kindOf[mine[c]] # "unborn"

KindsFit ==
  /\ \A h \in Helpers : dispatcher[h] # "none" => kindOf[h] = "S2L"
  /\ \A c \in Clients :
       Sending(c) => mine[c] \in Helpers /\ kindOf[mine[c]] = todo[c]

OneBrings ==
  \A c, d \in Clients :
    pc[c] \in Replacing /\ pc[d] \in Replacing /\ mine[c] = mine[d] => c = d

UnusedUntouched ==
  \A h \in Helpers :
    Unused(h) => /\ h # currentHelper
                 /\ stale[h] = 0 /\ dispatcher[h] = "none" /\ Holders(h) = {}

CurrentNotStale == currentHelper # 0 => stale[currentHelper] = 0

(* What helper h wrote late, and what it may still write late.             *)
Begun(h) ==
  IF kindOf[h] = "S2L" THEN IF dispatcher[h] \in { "send", "write" } THEN 1 ELSE 0
  ELSE Cardinality(Holders(h))

LateLimit(h) == IF kindOf[h] = "S2L" THEN 1 ELSE Cardinality(Clients) - 1

Replaced(h) == ~Unused(h) /\ h # currentHelper

LateBounded == \A h \in Helpers : Replaced(h) => stale[h] + Begun(h) <= LateLimit(h)

HelpersInv ==
  HelpersBorn /\ KindsFit /\ OneBrings /\ UnusedUntouched /\ CurrentNotStale /\ LateBounded

LEMMA HoldersCounted ==
  ASSUME NEW h
  PROVE  /\ IsFiniteSet(Holders(h))
         /\ Cardinality(Holders(h)) \in Nat
         /\ IsFiniteSet(Holders(h)')
         /\ Cardinality(Holders(h)') \in Nat
         /\ Cardinality(Clients) \in Nat \ {0}
PROOF
<1>1. Holders(h) \in SUBSET Clients /\ Holders(h)' \in SUBSET Clients
  BY DEF Holders
<1>2. IsFiniteSet(Holders(h)) /\ IsFiniteSet(Holders(h)')
  BY <1>1, ClientsAssumption, FS_Subset
<1> QED
  BY <1>2, ClientsAssumption, FS_CardinalityType, FS_EmptySet

(* A thread that gives its reference up is one fewer that can come late.   *)
LEMMA FewerHolders ==
  ASSUME NEW h,
         \A c \in Clients : Sending(c)' => Sending(c) /\ mine'[c] = mine[c]
  PROVE  Cardinality(Holders(h))' <= Cardinality(Holders(h))
PROOF
<1>1. Holders(h)' \in SUBSET Holders(h)
  BY DEF Holders
<1> QED
  BY <1>1, HoldersCounted, FS_Subset

LEMMA OneHolderFewer ==
  ASSUME NEW h, NEW c \in Clients, Sending(c), mine[c] = h, ~Sending(c)',
         \A d \in Clients : Sending(d)' => Sending(d) /\ mine'[d] = mine[d]
  PROVE  Cardinality(Holders(h))' <= Cardinality(Holders(h)) - 1
PROOF
<1>1. c \in Holders(h) /\ Holders(h)' \in SUBSET (Holders(h) \ {c})
  BY DEF Holders
<1>2. /\ IsFiniteSet(Holders(h) \ {c})
      /\ Cardinality(Holders(h) \ {c}) = Cardinality(Holders(h)) - 1
  BY <1>1, HoldersCounted, FS_RemoveElement
<1>3. Cardinality(Holders(h)') <= Cardinality(Holders(h) \ {c})
  BY <1>1, <1>2, FS_Subset
<1> QED
  BY <1>2, <1>3

(* A step that makes no helper and installs none, and in which whatever    *)
(* comes late had been begun.                                              *)
LEMMA HelpersInvKept ==
  ASSUME HelpersInv, ServerTypeOK, ServerTypeOK', UNCHANGED << kindOf, currentHelper >>,
         \A c \in Clients : /\ pc'[c] \in Replacing <=> pc[c] \in Replacing
                            /\ pc[c] \in Replacing => mine'[c] = mine[c],
         \A c \in Clients : Sending(c)' => /\ Sending(c)
                                           /\ mine'[c] = mine[c] /\ todo'[c] = todo[c],
         \A h \in Helpers : dispatcher'[h] # "none" =>
           dispatcher[h] # "none" \/ (h = currentHelper /\ kindOf[h] = "S2L"),
         \A h \in Helpers : stale'[h] # stale[h] => Replaced(h),
         \A h \in Helpers : Replaced(h) => (stale[h] + Begun(h))' <= stale[h] + Begun(h)
  PROVE  HelpersInv'
PROOF
<1> USE DEF HelpersInv
<1>1. \A h \in Helpers : Unused(h)' <=> Unused(h)
  BY DEF Unused, Brings
<1>2. HelpersBorn'
  BY DEF HelpersBorn
<1>3. KindsFit'
  BY DEF KindsFit
<1>4. OneBrings'
  BY DEF OneBrings
<1>5. UnusedUntouched'
  BY <1>1 DEF UnusedUntouched, Replaced, Holders, ServerTypeOK, HelpersTypeOK
<1>6. CurrentNotStale'
  BY DEF CurrentNotStale, Replaced, ServerTypeOK, HelpersTypeOK
<1>7. LateBounded'
  <2> SUFFICES ASSUME NEW h \in Helpers, Replaced(h)'
               PROVE  (stale[h] + Begun(h) <= LateLimit(h))'
    BY DEF LateBounded
  <2>1. Replaced(h)
    BY <1>1 DEF Replaced
  <2>2. (stale[h] + Begun(h))' <= stale[h] + Begun(h)
    BY <2>1
  <2>3. stale[h] + Begun(h) <= LateLimit(h)
    BY <2>1 DEF LateBounded
  <2>4. LateLimit(h)' = LateLimit(h)
    BY DEF LateLimit
  <2>5. /\ stale[h] + Begun(h) \in Nat /\ (stale[h] + Begun(h))' \in Nat
        /\ LateLimit(h) \in Int
    BY HoldersCounted DEF Begun, LateLimit, ServerTypeOK, SendTypeOK
  <2> QED
    BY <2>2, <2>3, <2>4, <2>5
<1> QED
  BY <1>2, <1>3, <1>4, <1>5, <1>6, <1>7

(* In particular a step that leaves audio threads and packets alone.       *)
LEMMA HelpersUnmoved ==
  ASSUME HelpersInv, ServerTypeOK, ServerTypeOK',
         UNCHANGED << kindOf, currentHelper, dispatcher, stale >>,
         \A c \in Clients : /\ pc'[c] \in Replacing <=> pc[c] \in Replacing
                            /\ pc[c] \in Replacing => mine'[c] = mine[c],
         \A c \in Clients : Sending(c)' => /\ Sending(c)
                                           /\ mine'[c] = mine[c] /\ todo'[c] = todo[c]
  PROVE  HelpersInv'
PROOF
<1>1. ASSUME NEW h \in Helpers
      PROVE  (stale[h] + Begun(h))' <= stale[h] + Begun(h)
  <2>1. Cardinality(Holders(h))' <= Cardinality(Holders(h))
    BY FewerHolders
  <2>2. PICK m \in Nat, n \in Nat :
          m = Cardinality(Holders(h))' /\ n = Cardinality(Holders(h))
    BY HoldersCounted
  <2>3. stale[h] \in Nat /\ stale'[h] = stale[h]
    BY DEF ServerTypeOK, SendTypeOK
  <2> QED
    BY <2>1, <2>2, <2>3 DEF Begun
<1> QED
  BY <1>1, HelpersInvKept

(* sendPacket counts a packet as late if it is of a replaced helper.       *)
LEMMA PacketsCounted ==
  ASSUME NEW h, NEW l, SendPacket(h, l)
  PROVE  \/ stale' = stale
         \/ h \notin { 0, currentHelper } /\ stale' = [stale EXCEPT ![h] = @ + 1]
PROOF
  BY DEF SendPacket, ThrowAway, PutOnLine

(* A new helper is known to the thread that makes it alone.                *)
LEMMA NewHelperKnownToOne ==
  ASSUME HelpersInv, ServerTypeOK, NEW c \in Clients, NEW k \in Kinds, NEW next,
         NewHelper(c, k, next), pc[c] = "idle",
         UNCHANGED << currentHelper, dispatcher, stale >>
  PROVE  HelpersInv'
PROOF
<1>1. PICK n \in Helpers :
        /\ kindOf[n] = "unborn" /\ kindOf' = [kindOf EXCEPT ![n] = k]
        /\ mine' = [mine EXCEPT ![c] = n]
        /\ pc' = [pc EXCEPT ![c] = "lock"]
        /\ todo' = [todo EXCEPT ![c] = next]
  BY DEF NewHelper, Goto
<1>2. /\ ClientsTypeOK /\ HelpersTypeOK /\ k # "unborn"
      /\ Unused(n)
  BY <1>1 DEF ServerTypeOK, Kinds, Unused
<1>3. \A d \in Clients : d # c => /\ pc'[d] = pc[d] /\ mine'[d] = mine[d]
                                  /\ todo'[d] = todo[d]
  BY <1>1, <1>2 DEF ClientsTypeOK
<1>4. pc'[c] = "lock" /\ mine'[c] = n
  BY <1>1, <1>2 DEF ClientsTypeOK
<1>5. \A h \in Helpers : kindOf'[h] = IF h = n THEN k ELSE kindOf[h]
  BY <1>1, <1>2 DEF HelpersTypeOK
<1>6. \A d \in Clients : Sending(d)' <=> Sending(d)
  BY <1>3, <1>4 DEF Sending
<1>7. \A h : Holders(h)' = Holders(h)
  <2> SUFFICES ASSUME NEW h
               PROVE  Holders(h)' = Holders(h)
    OBVIOUS
  <2>1. ~Sending(c)
    BY DEF Sending
  <2> QED
    BY <1>3, <1>6, <2>1 DEF Holders
<1>8. \A d \in Clients : pc[d] \in Replacing => mine[d] # n
  BY <1>1 DEF HelpersInv, HelpersBorn
<1>9. \A h \in Helpers : Unused(h)' <=> Unused(h)
  <2> SUFFICES ASSUME NEW h \in Helpers
               PROVE  Unused(h)' <=> Unused(h)
    OBVIOUS
  <2>1. CASE h = n
    BY <1>2, <1>4, <2>1 DEF Unused, Brings, Replacing
  <2>2. CASE h # n
    BY <1>3, <1>4, <1>5, <2>2 DEF Unused, Brings, Replacing
  <2> QED
    BY <2>1, <2>2
<1>10. HelpersBorn'
  BY <1>2, <1>3, <1>4, <1>5 DEF HelpersInv, HelpersBorn, HelpersTypeOK
<1>11. KindsFit'
  <2>1. dispatcher[n] = "none"
    BY <1>2 DEF HelpersInv, UnusedUntouched
  <2>2. \A d \in Clients : Sending(d) => d # c
    BY DEF Sending
  <2> QED
    BY <1>1, <1>3, <1>5, <1>6, <2>1, <2>2 DEF HelpersInv, KindsFit, Sending
<1>12. OneBrings'
  BY <1>3, <1>4, <1>8 DEF HelpersInv, OneBrings
<1>13. UnusedUntouched'
  BY <1>7, <1>9 DEF HelpersInv, UnusedUntouched
<1>14. CurrentNotStale'
  BY DEF HelpersInv, CurrentNotStale
<1>15. LateBounded'
  <2> SUFFICES ASSUME NEW h \in Helpers, Replaced(h)'
               PROVE  (stale[h] + Begun(h) <= LateLimit(h))'
    BY DEF LateBounded
  <2>1. Replaced(h) /\ h # n
    BY <1>2, <1>9 DEF Replaced
  <2>2. Begun(h)' = Begun(h) /\ LateLimit(h)' = LateLimit(h)
    BY <1>5, <1>7, <2>1 DEF Begun, LateLimit
  <2> QED
    BY <2>1, <2>2 DEF HelpersInv, LateBounded
<1> QED
  BY <1>10, <1>11, <1>12, <1>13, <1>14, <1>15 DEF HelpersInv

(* A client that casts holds a reference to the helper that is current.    *)
LEMMA CastTakesCurrent ==
  ASSUME HelpersInv, ServerTypeOK, ServerTypeOK', NEW c \in Clients, Cast(c),
         RequestInHand
  PROVE  HelpersInv'
PROOF
<1>1. /\ pc[c] = "cast"
      /\ UNCHANGED << kindOf, currentHelper, dispatcher, stale >>
      /\ ClientsTypeOK /\ HelpersTypeOK
  BY DEF Cast, helperVars, sendVars, ServerTypeOK
<1>2. CASE Finish(c)
  BY <1>1, <1>2, HelpersUnmoved DEF Finish, Goto, Replacing, Sending, ClientsTypeOK
<1>3. CASE ~Finish(c)
  <2>1. /\ CurrentKind = todo[c] /\ todo' = todo
        /\ mine' = [mine EXCEPT ![c] = currentHelper]
        /\ pc' = [pc EXCEPT ![c] = "send"]
    BY <1>3 DEF Cast, Goto
  <2>2. \A d \in Clients : d # c => pc'[d] = pc[d] /\ mine'[d] = mine[d]
    BY <1>1, <2>1 DEF ClientsTypeOK
  <2>3. pc'[c] = "send" /\ mine'[c] = currentHelper
    BY <1>1, <2>1 DEF ClientsTypeOK
  <2>4. ~Sending(c)
    BY <1>1 DEF Sending
  <2>5. \A h : h # currentHelper => Holders(h)' = Holders(h)
    BY <2>1, <2>2, <2>3, <2>4 DEF Holders, Sending
  <2>6. \A h \in Helpers : Unused(h)' <=> Unused(h)
    BY <1>1, <2>2, <2>3 DEF Unused, Brings, Replacing
  <2>7. HelpersBorn'
    BY <1>1, <2>2, <2>3 DEF HelpersInv, HelpersBorn, Replacing
  <2>8. KindsFit'
    <3>1. Sending(c)' => currentHelper \in Helpers /\ kindOf[currentHelper] = todo[c]
      BY <1>1, <2>1 DEF Sending, CurrentKind, HelpersTypeOK
    <3> QED
      BY <1>1, <2>1, <2>2, <2>3, <3>1 DEF HelpersInv, KindsFit, Sending
  <2>9. OneBrings'
    BY <2>2, <2>3 DEF HelpersInv, OneBrings, Replacing
  <2>10. UnusedUntouched'
    BY <1>1, <2>5, <2>6 DEF HelpersInv, UnusedUntouched
  <2>11. CurrentNotStale'
    BY <1>1 DEF HelpersInv, CurrentNotStale
  <2>12. LateBounded'
    <3> SUFFICES ASSUME NEW h \in Helpers, Replaced(h)'
                 PROVE  (stale[h] + Begun(h) <= LateLimit(h))'
      BY DEF LateBounded
    <3>1. Replaced(h)
      BY <1>1, <2>6 DEF Replaced
    <3>2. Begun(h)' = Begun(h) /\ LateLimit(h)' = LateLimit(h)
      BY <1>1, <2>5, <3>1 DEF Begun, LateLimit, Replaced
    <3> QED
      BY <1>1, <3>1, <3>2 DEF HelpersInv, LateBounded
  <2> QED
    BY <2>7, <2>8, <2>9, <2>10, <2>11, <2>12 DEF HelpersInv
<1> QED
  BY <1>2, <1>3

(* Of a helper that has been replaced, a client writes at most what it     *)
(* held a reference for; the reference is gone with the request.           *)
LEMMA WriteUsesUpReference ==
  ASSUME HelpersInv, ServerTypeOK, ServerTypeOK', NEW c \in Clients, Write(c),
         RequestInHand
  PROVE  HelpersInv'
PROOF
<1>1. /\ pc[c] = "write" /\ Finish(c)
      /\ UNCHANGED << kindOf, currentHelper, dispatcher >>
      /\ ClientsTypeOK /\ HelpersTypeOK
      /\ todo[c] \in { "brightness", "freeze", "COLOR", "GAME" }
  BY DEF Write, helperVars, ServerTypeOK, ClientsTypeOK, RequestInHand
<1>2. /\ \A d \in Clients : d # c => /\ pc'[d] = pc[d] /\ mine'[d] = mine[d]
                                     /\ todo'[d] = todo[d]
      /\ pc'[c] = "idle"
  BY <1>1 DEF Finish, Goto, ClientsTypeOK
<1>3. \A d \in Clients : /\ pc'[d] \in Replacing <=> pc[d] \in Replacing
                         /\ pc[d] \in Replacing => mine'[d] = mine[d]
  BY <1>1, <1>2 DEF Replacing
<1>4. \A d \in Clients : Sending(d)' => /\ Sending(d)
                                        /\ mine'[d] = mine[d] /\ todo'[d] = todo[d]
  BY <1>1, <1>2 DEF Sending
<1>5. CASE stale' = stale
  BY <1>1, <1>3, <1>4, <1>5, HelpersUnmoved
<1>6. CASE stale' # stale
  <2>1. ASSUME NEW l, SendPacket(0, l) PROVE FALSE
    BY <1>6, <2>1, PacketsCounted
  <2>2. Sending(c) /\ SendPacket(mine[c], NoLevel)
    BY <1>1, <2>1 DEF Write, Sending
  <2>3. PICK g \in Helpers : g = mine[c] /\ kindOf[g] = todo[c]
    BY <2>2 DEF HelpersInv, KindsFit
  <2>4. g # currentHelper /\ stale' = [stale EXCEPT ![g] = @ + 1]
    BY <1>6, <2>2, <2>3, PacketsCounted
  <2>5. Replaced(g)
    <3>1. c \in Holders(g)
      BY <2>2, <2>3 DEF Holders
    <3> QED
      BY <2>4, <3>1 DEF Replaced, HelpersInv, UnusedUntouched
  <2>6. /\ \A h \in Helpers : h # g => stale'[h] = stale[h]
        /\ stale'[g] = stale[g] + 1
        /\ stale \in [Helpers -> Nat]
    BY <2>4 DEF ServerTypeOK, SendTypeOK
  <2>7. ASSUME NEW h \in Helpers
        PROVE  (stale[h] + Begun(h))' <= stale[h] + Begun(h)
    <3>1. PICK m \in Nat, n \in Nat :
            m = Cardinality(Holders(h))' /\ n = Cardinality(Holders(h))
      BY HoldersCounted
    <3>2. CASE h = g
      <4>1. m <= n - 1
        BY <1>2, <1>4, <2>2, <2>3, <3>1, <3>2, OneHolderFewer DEF Sending
      <4>2. kindOf[h] # "S2L"
        BY <2>2, <2>3, <3>2 DEF Sending
      <4>3. Begun(h)' = m /\ Begun(h) = n
        BY <1>1, <3>1, <4>2 DEF Begun
      <4>4. PICK s \in Nat : s = stale[h] /\ stale'[h] = s + 1
        BY <2>6, <3>2
      <4> QED
        BY <4>1, <4>3, <4>4
    <3>3. CASE h # g
      <4>1. m <= n
        BY <1>4, <3>1, FewerHolders
      <4>2. PICK s \in Nat : s = stale[h] /\ stale'[h] = s
        BY <2>6, <3>3
      <4> QED
        BY <1>1, <3>1, <4>1, <4>2 DEF Begun
    <3> QED
      BY <3>2, <3>3
  <2> QED
    BY <1>1, <1>3, <1>4, <2>5, <2>6, <2>7, HelpersInvKept
<1> QED
  BY <1>5, <1>6

(* Installing a helper replaces the current one, which is not late yet;    *)
(* the thread that installs holds no reference to it.                      *)
LEMMA InstallReplaces ==
  ASSUME HelpersInv, ServerTypeOK, ServerTypeOK', NEW c \in Clients, Install(c)
  PROVE  HelpersInv'
PROOF
<1>1. /\ pc[c] = "install" /\ pc' = [pc EXCEPT ![c] = "start"]
      /\ UNCHANGED << todo, mine, kindOf, dispatcher, stale >>
      /\ currentHelper' = mine[c]
      /\ ClientsTypeOK /\ HelpersTypeOK
  BY DEF Install, Move, Goto, sendVars, ServerTypeOK
<1>2. PICK n \in Helpers : n = mine[c] /\ kindOf[n] # "unborn" /\ currentHelper' = n
  BY <1>1 DEF HelpersInv, HelpersBorn, Replacing
<1>3. /\ \A d \in Clients : d # c => pc'[d] = pc[d]
      /\ pc'[c] = "start"
  BY <1>1 DEF ClientsTypeOK
<1>4. Unused(n) /\ n # 0
  BY <1>1, <1>2, ServerAssumption DEF Unused, Brings, Replacing, Helpers
<1>5. \A h \in Helpers : Unused(h)' <=> Unused(h) /\ h # n
  <2> SUFFICES ASSUME NEW h \in Helpers
               PROVE  Unused(h)' <=> Unused(h) /\ h # n
    OBVIOUS
  <2>1. CASE h = n
    BY <1>1, <1>2, <1>3, <2>1 DEF HelpersInv, OneBrings, Unused, Brings, Replacing
  <2>2. CASE h # n
    BY <1>1, <1>2, <1>3, <2>2 DEF Unused, Brings, Replacing
  <2> QED
    BY <2>1, <2>2
<1>6. /\ \A d \in Clients : Sending(d)' <=> Sending(d)
      /\ ~Sending(c)
  BY <1>1, <1>3 DEF Sending
<1>7. \A h : Holders(h)' = Holders(h)
  BY <1>1, <1>6 DEF Holders
<1>8. HelpersBorn'
  BY <1>1, <1>2, <1>3 DEF HelpersInv, HelpersBorn, Replacing
<1>9. KindsFit'
  BY <1>1, <1>6 DEF HelpersInv, KindsFit
<1>10. OneBrings'
  BY <1>1, <1>3 DEF HelpersInv, OneBrings, Replacing
<1>11. UnusedUntouched'
  BY <1>1, <1>2, <1>5, <1>7 DEF HelpersInv, UnusedUntouched
<1>12. CurrentNotStale'
  BY <1>1, <1>2, <1>4 DEF HelpersInv, CurrentNotStale, UnusedUntouched
<1>13. LateBounded'
  <2> SUFFICES ASSUME NEW h \in Helpers, Replaced(h)'
               PROVE  (stale[h] + Begun(h) <= LateLimit(h))'
    BY DEF LateBounded
  <2>1. ~Unused(h)
    BY <1>2, <1>5 DEF Replaced
  <2>2. Begun(h)' = Begun(h) /\ LateLimit(h)' = LateLimit(h)
    BY <1>1, <1>7 DEF Begun, LateLimit
  <2>3. stale[h] + Begun(h) <= LateLimit(h)
    <3>1. CASE h # currentHelper
      BY <2>1, <3>1 DEF HelpersInv, LateBounded, Replaced
    <3>2. CASE h = currentHelper
      <4>1. stale[h] = 0
        BY <3>2, ServerAssumption DEF HelpersInv, CurrentNotStale, Helpers
      <4>2. Begun(h) <= LateLimit(h) /\ Begun(h) \in Nat
        <5>1. Holders(h) \in SUBSET (Clients \ {c})
          BY <1>6 DEF Holders
        <5>2. /\ IsFiniteSet(Clients \ {c})
              /\ Cardinality(Clients \ {c}) = Cardinality(Clients) - 1
          BY ClientsAssumption, FS_RemoveElement
        <5>3. Cardinality(Holders(h)) <= Cardinality(Clients) - 1
          BY <5>1, <5>2, FS_Subset
        <5> QED
          BY <5>3, HoldersCounted DEF Begun, LateLimit
      <4> QED
        BY <4>1, <4>2
    <3> QED
      BY <3>1, <3>2
  <2> QED
    BY <1>1, <2>2, <2>3
<1> QED
  BY <1>8, <1>9, <1>10, <1>11, <1>12, <1>13 DEF HelpersInv

LEMMA StartIsNotLate ==
  ASSUME HelpersInv, ServerTypeOK, ServerTypeOK', NEW c \in Clients, Start(c)
  PROVE  HelpersInv'
PROOF
<1>1. /\ pc[c] = "start"
      /\ \/ pc' = [pc EXCEPT ![c] = "cast"] /\ UNCHANGED << todo, mine >>
         \/ Finish(c)
      /\ UNCHANGED << kindOf, currentHelper >>
      /\ ClientsTypeOK /\ HelpersTypeOK
  BY DEF Start, Move, Goto, ServerTypeOK
<1>2. /\ \A d \in Clients : d # c => /\ pc'[d] = pc[d] /\ mine'[d] = mine[d]
                                     /\ todo'[d] = todo[d]
      /\ pc'[c] \in { "cast", "idle" }
  BY <1>1 DEF Finish, Goto, ClientsTypeOK
<1>3. \A d \in Clients : /\ pc'[d] \in Replacing <=> pc[d] \in Replacing
                         /\ pc[d] \in Replacing => mine'[d] = mine[d]
  BY <1>1, <1>2 DEF Replacing
<1>4. \A d \in Clients : Sending(d)' => /\ Sending(d)
                                        /\ mine'[d] = mine[d] /\ todo'[d] = todo[d]
  BY <1>2 DEF Sending
<1>5. stale' = stale
  <2>1. SendPacket(currentHelper, NoLevel) \/ UNCHANGED sendVars
    BY DEF Start
  <2> QED
    BY <2>1, PacketsCounted DEF sendVars
<1>6. CASE dispatcher' = dispatcher
  BY <1>1, <1>3, <1>4, <1>5, <1>6, HelpersUnmoved
<1>7. CASE dispatcher' # dispatcher
  <2>1. PICK d \in { "read", "none" } :
          CurrentKind = "S2L" /\ dispatcher' = [dispatcher EXCEPT ![currentHelper] = d]
    BY <1>7 DEF Start
  <2>2. \A h \in Helpers : dispatcher'[h] # dispatcher[h] =>
          h = currentHelper /\ kindOf[h] = "S2L"
    BY <1>1, <2>1 DEF HelpersTypeOK, CurrentKind
  <2>3. ASSUME NEW h \in Helpers, Replaced(h)
        PROVE  (stale[h] + Begun(h))' <= stale[h] + Begun(h)
    <3>1. PICK m \in Nat, n \in Nat :
            m = Cardinality(Holders(h))' /\ n = Cardinality(Holders(h))
      BY HoldersCounted
    <3>2. m <= n
      BY <1>4, <3>1, FewerHolders
    <3>3. dispatcher'[h] = dispatcher[h] /\ stale[h] \in Nat
      BY <2>2, <2>3 DEF Replaced, ServerTypeOK, SendTypeOK
    <3> QED
      BY <1>1, <1>5, <3>1, <3>2, <3>3 DEF Begun
  <2> QED
    BY <1>1, <1>3, <1>4, <1>5, <2>2, <2>3, HelpersInvKept
<1> QED
  BY <1>6, <1>7

(* The audio thread of a replaced helper writes the block it has read, and *)
(* reads no other, having been told to stop.                               *)
LEMMA DispatchEndsSoon ==
  ASSUME HelpersInv, ServerTypeOK, ServerTypeOK', OnlyCurrentDispatches,
         NEW g \in Helpers, Dispatch(g)
  PROVE  HelpersInv'
PROOF
<1>1. /\ UNCHANGED << clientVars, kindOf, currentHelper >>
      /\ dispatcher[g] \notin { "none", "done" }
      /\ \A h \in Helpers : h # g => dispatcher'[h] = dispatcher[h]
      /\ HelpersTypeOK
  BY DEF Dispatch, DispatcherRead, DispatcherEnter, DispatcherWrite, ServerTypeOK,
         HelpersTypeOK
<1>2. \A d \in Clients : /\ pc'[d] \in Replacing <=> pc[d] \in Replacing
                         /\ pc[d] \in Replacing => mine'[d] = mine[d]
  BY <1>1 DEF clientVars
<1>3. \A d \in Clients : Sending(d)' <=> Sending(d)
  BY <1>1 DEF Sending, clientVars
<1>4. \A h : Holders(h)' = Holders(h)
  BY <1>1, <1>3 DEF Holders, clientVars
<1>5. kindOf[g] = "S2L" /\ ~Unused(g)
  BY <1>1 DEF HelpersInv, KindsFit, UnusedUntouched
<1>6. \A h \in Helpers : /\ h # g => stale'[h] = stale[h]
                         /\ stale'[h] # stale[h] => Replaced(h)
  <2>1. SendPacket(g, NoLevel) \/ stale' = stale
    BY DEF Dispatch, DispatcherRead, DispatcherEnter, DispatcherWrite, sendVars
  <2>2. \/ stale' = stale
        \/ g \notin { 0, currentHelper } /\ stale' = [stale EXCEPT ![g] = @ + 1]
    BY <2>1, PacketsCounted
  <2> QED
    BY <1>5, <2>2 DEF Replaced, ServerTypeOK, SendTypeOK
<1>7. ASSUME Replaced(g)
      PROVE  (stale[g] + Begun(g))' <= stale[g] + Begun(g)
  <2>1. PICK s \in Nat : s = stale[g]
    BY DEF ServerTypeOK, SendTypeOK
  <2>2. g \in stopped
    BY <1>1, <1>7 DEF Replaced, OnlyCurrentDispatches
  <2>3. CASE DispatcherRead(g)
    <3>1. dispatcher'[g] = "done" /\ dispatcher[g] = "read" /\ stale' = stale
      BY <1>1, <2>2, <2>3 DEF DispatcherRead, HelpersTypeOK, sendVars
    <3> QED
      BY <1>1, <1>5, <2>1, <3>1 DEF Begun
  <2>4. CASE DispatcherEnter(g)
    <3>1. dispatcher'[g] = "write" /\ dispatcher[g] = "send" /\ stale' = stale
      BY <1>1, <2>4 DEF DispatcherEnter, HelpersTypeOK, sendVars
    <3> QED
      BY <1>1, <1>5, <2>1, <3>1 DEF Begun
  <2>5. CASE DispatcherWrite(g)
    <3>1. dispatcher'[g] = "read" /\ dispatcher[g] = "write"
      BY <1>1, <2>5 DEF DispatcherWrite, HelpersTypeOK
    <3>2. stale'[g] = s \/ stale'[g] = s + 1
      BY <2>1, <2>5, PacketsCounted DEF DispatcherWrite, ServerTypeOK, SendTypeOK
    <3> QED
      BY <1>1, <1>5, <2>1, <3>1, <3>2 DEF Begun
  <2> QED
    BY <2>3, <2>4, <2>5 DEF Dispatch
<1>8. ASSUME NEW h \in Helpers, Replaced(h)
      PROVE  (stale[h] + Begun(h))' <= stale[h] + Begun(h)
  <2>1. CASE h = g
    BY <1>7, <1>8, <2>1
  <2>2. CASE h # g
    <3>1. stale'[h] = stale[h] /\ Begun(h)' = Begun(h)
      BY <1>1, <1>4, <1>6, <2>2 DEF Begun
    <3>2. stale[h] + Begun(h) \in Nat
      BY HoldersCounted DEF Begun, ServerTypeOK, SendTypeOK
    <3> QED
      BY <3>1, <3>2
  <2> QED
    BY <2>1, <2>2
<1> QED
  BY <1>1, <1>2, <1>3, <1>6, <1>8, HelpersInvKept DEF clientVars

LEMMA CallKnowsHelpers ==
  ASSUME HelpersInv, ServerTypeOK, ServerTypeOK', NEW c \in Clients, NEW r \in Requests,
         Call(c, r)
  PROVE  HelpersInv'
PROOF
<1>1. /\ pc[c] = "idle" /\ UNCHANGED << currentHelper, dispatcher, stale >>
      /\ r \in Request /\ ClientsTypeOK
  BY ServerAssumption DEF Call, sendVars, ServerTypeOK
<1>2. CASE \E k \in Kinds, next \in { "nothing", "GAME" } : NewHelper(c, k, next)
  BY <1>1, <1>2, NewHelperKnownToOne
<1>3. ASSUME NEW label \in { "cast", "check", "send" }, Goto(c, label),
             UNCHANGED << mine, kindOf >>,
             \E t \in { "COLOR", "GAME", "brightness", "freeze" } :
               todo' = [todo EXCEPT ![c] = t] /\ (label = "send" => t = "freeze")
      PROVE  HelpersInv'
  <2>1. /\ \A d \in Clients : d # c => pc'[d] = pc[d] /\ todo'[d] = todo[d]
        /\ pc'[c] = label /\ (label = "send" => todo'[c] = "freeze")
        /\ mine' = mine
    BY <1>1, <1>3 DEF Goto, ClientsTypeOK
  <2>2. \A d \in Clients : pc'[d] \in Replacing <=> pc[d] \in Replacing
    BY <1>1, <2>1 DEF Replacing
  <2>3. \A d \in Clients : Sending(d)' => Sending(d) /\ todo'[d] = todo[d]
    BY <2>1 DEF Sending
  <2> QED
    BY <1>1, <1>3, <2>1, <2>2, <2>3, HelpersUnmoved
<1>4. CASE r.act = "mode"
  BY <1>1, <1>2, <1>4 DEF Call, Request, Kinds
<1>5. CASE r.act = "color" \/ r.act = "game"
  BY <1>2, <1>3, <1>5 DEF Call, UseHelper, Kinds
<1>6. CASE r.act = "brightness" \/ r.act = "relative"
  BY <1>3, <1>6 DEF Call, CallSetBrightness
<1>7. CASE r.act = "freeze"
  BY <1>3, <1>7 DEF Call
<1> QED
  BY <1>1, <1>4, <1>5, <1>6, <1>7 DEF Request

LEMMA HelpersStayKnown ==
  ASSUME ServerInv, ServerInv', HelpersInv, ServerNext
  PROVE  HelpersInv'
PROOF
<1> USE DEF ServerInv
<1>1. ASSUME NEW c \in Clients, NEW r \in Requests, Call(c, r) PROVE HelpersInv'
  BY <1>1, CallKnowsHelpers
<1>2. ASSUME NEW c \in Clients, NEW label,
             \/ /\ Move(c, label)
                /\ pc[c] \in Replacing <=> label \in Replacing
                /\ Sending(c)' => Sending(c)
             \/ Finish(c) /\ pc[c] \notin Replacing,
             UNCHANGED << kindOf, currentHelper, dispatcher, stale >>
      PROVE  HelpersInv'
  <2>1. ClientsTypeOK
    BY DEF ServerTypeOK
  <2>2. \A d \in Clients : d # c => /\ pc'[d] = pc[d] /\ mine'[d] = mine[d]
                                    /\ todo'[d] = todo[d]
    BY <1>2, <2>1 DEF Move, Finish, Goto, ClientsTypeOK
  <2>3. \/ pc'[c] = label /\ mine' = mine /\ todo' = todo
           /\ (pc[c] \in Replacing <=> label \in Replacing) /\ (Sending(c)' => Sending(c))
        \/ pc'[c] = "idle" /\ pc[c] \notin Replacing
    BY <1>2, <2>1 DEF Move, Finish, Goto, ClientsTypeOK
  <2>4. \A d \in Clients : /\ pc'[d] \in Replacing <=> pc[d] \in Replacing
                           /\ pc[d] \in Replacing => mine'[d] = mine[d]
    BY <2>2, <2>3 DEF Replacing
  <2>5. \A d \in Clients : Sending(d)' => /\ Sending(d)
                                          /\ mine'[d] = mine[d] /\ todo'[d] = todo[d]
    BY <2>2, <2>3 DEF Sending
  <2> QED
    BY <1>2, <2>4, <2>5, HelpersUnmoved
<1>3. ASSUME NEW c \in Clients, Enter(c) PROVE HelpersInv'
  <2>1. CASE EnterSend(c)
    BY <1>2, <2>1 DEF EnterSend, helperVars, sendVars, Sending, Replacing, Move
  <2>2. CASE EnterSetHelper(c)
    <3>1. ~Sending(c)'
      BY <2>2 DEF EnterSetHelper, Move, Goto, Sending, ServerTypeOK, ClientsTypeOK
    <3>2. /\ Move(c, "terminate") /\ pc[c] = "lock"
          /\ UNCHANGED << kindOf, currentHelper, dispatcher, stale >>
      BY <2>2 DEF EnterSetHelper, helperVars, sendVars
    <3>3. "terminate" \in Replacing /\ "lock" \in Replacing
      BY DEF Replacing
    <3> QED
      BY <1>2, <3>1, <3>2, <3>3
  <2> QED
    BY <1>3, <2>1, <2>2 DEF Enter
<1>4. ASSUME NEW c \in Clients, Check(c) \/ Assign(c) PROVE HelpersInv'
  <2>1. \A label \in { "assign", "build" } : Move(c, label) => ~Sending(c)'
    BY DEF Move, Goto, Sending, ServerTypeOK, ClientsTypeOK
  <2> QED
    BY <1>2, <1>4, <2>1 DEF Check, Assign, helperVars, sendVars, Replacing
<1>5. ASSUME NEW c \in Clients, Build(c) PROVE HelpersInv'
  <2>1. /\ pc' = [pc EXCEPT ![c] = "send"] /\ pc[c] = "build" /\ todo[c] = "brightness"
        /\ UNCHANGED << todo, mine, kindOf, currentHelper, dispatcher, stale >>
        /\ ClientsTypeOK
    BY <1>5 DEF Build, Goto, RequestInHand, helperVars, sendVars, ServerTypeOK
  <2>2. \A d \in Clients : pc'[d] \in Replacing <=> pc[d] \in Replacing
    BY <2>1 DEF Replacing, ClientsTypeOK
  <2>3. \A d \in Clients : Sending(d)' => Sending(d)
    BY <2>1 DEF Sending, ClientsTypeOK
  <2>4. mine' = mine /\ todo' = todo
    BY <2>1
  <2> QED
    BY <2>1, <2>2, <2>3, <2>4, HelpersUnmoved
<1>6. ASSUME NEW c \in Clients, Terminate(c) \/ Join(c) \/ JoinTimeout(c)
      PROVE  HelpersInv'
  <2>1. \A label \in { "join", "install" } : Move(c, label) => ~Sending(c)'
    BY DEF Move, Goto, Sending, ServerTypeOK, ClientsTypeOK
  <2> QED
    BY <1>2, <1>6, <2>1 DEF Terminate, Join, JoinTimeout, helperVars, sendVars, Replacing
<1>7. CASE Drain \/ Unplug \/ Replug
  <2>1. UNCHANGED << clientVars, kindOf, currentHelper, dispatcher, stale >>
    BY <1>7 DEF Drain, Unplug, Replug, helperVars, sendVars
  <2> QED
    BY <2>1, HelpersUnmoved DEF clientVars, Sending
<1> QED
  BY <1>1, <1>3, <1>4, <1>5, <1>6, <1>7, CastTakesCurrent, WriteUsesUpReference,
     InstallReplaces, StartIsNotLate, DispatchEndsSoon DEF ServerNext, Proceed

LEMMA HelpersInvariant == ServerSpec => []HelpersInv
PROOF
<1>1. ServerInit => HelpersInv
  <2> SUFFICES ASSUME ServerInit
               PROVE  HelpersInv
    OBVIOUS
  <2>1. \A h : Holders(h) = {}
    BY DEF ServerInit, Holders, Sending
  <2>2. \A h \in Helpers : Unused(h) /\ h # 0
    BY ServerAssumption DEF ServerInit, Unused, Helpers
  <2> QED
    BY <2>1, <2>2
    DEF ServerInit, HelpersInv, HelpersBorn, KindsFit, OneBrings, UnusedUntouched,
        CurrentNotStale, LateBounded, Replaced, Replacing, Sending
<1>2. ServerInv /\ ServerInv' /\ HelpersInv /\ [ServerNext]_serverVars => HelpersInv'
  <2>1. CASE ServerNext
    BY <2>1, HelpersStayKnown
  <2>2. CASE UNCHANGED serverVars
    BY <2>2, HelpersUnmoved
    DEF serverVars, clientVars, helperVars, sendVars, Sending, ServerInv
  <2> QED
    BY <2>1, <2>2
<1> QED
  BY <1>1, <1>2, ServerInvariant, PTL DEF ServerSpec

(* Once replaced, an S2L helper writes one packet at most, and any other   *)
(* one at most for every other client, for any number of clients and of    *)
(* helpers, however they interleave.                                       *)
THEOREM LateWritesBounded == ServerSpec => []StaleBounded
PROOF
<1>1. ServerTypeOK /\ HelpersInv => StaleBounded
  <2> SUFFICES ASSUME ServerTypeOK, HelpersInv, NEW h \in Helpers
               PROVE  stale[h] <= LateLimit(h)
    BY DEF StaleBounded, LateLimit
  <2>1. stale[h] \in Nat /\ LateLimit(h) \in Nat /\ Begun(h) \in Nat
    BY HoldersCounted DEF ServerTypeOK, SendTypeOK, LateLimit, Begun
  <2>2. CASE Replaced(h)
    <3>1. stale[h] + Begun(h) <= LateLimit(h)
      BY <2>2 DEF HelpersInv, LateBounded
    <3> QED
      BY <2>1, <3>1
  <2>3. CASE ~Replaced(h)
    <3>1. stale[h] = 0
      BY <2>3, ServerAssumption
      DEF Replaced, HelpersInv, UnusedUntouched, CurrentNotStale, Helpers
    <3> QED
      BY <2>1, <3>1
  <2> QED
    BY <2>2, <2>3
<1> QED
  BY <1>1, ServerTypeCorrect, HelpersInvariant, PTL

-----------------------------------------------------------------------------
(* What makes the last mode packet on the line the current helper's: only  *)
(* between the installation of a helper and the end of its start may they  *)
(* differ.                                                                 *)
CurrentOnLine == lastHelper = currentHelper \/ CurrentKind \in { "S2L", "GAME" }

StartInstalled == \A c \in Clients : pc[c] = "start" => currentHelper # 0

ModeInv ==
  /\ StartInstalled
  /\ \/ dropped
     \/ \E h \in Helpers : stale[h] # 0
     \/ \E c \in Clients : pc[c] = "start"
     \/ CurrentOnLine

(* A packet of a helper is the current one's, or comes late.               *)
LEMMA PacketsOfCurrent ==
  ASSUME ServerTypeOK, NEW h \in Helpers \cup {0}, NEW l, SendPacket(h, l), ~dropped'
  PROVE  \/ \E g \in Helpers : stale'[g] # 0
         \/ stale' = stale /\ lastHelper' = IF h # 0 THEN h ELSE lastHelper
PROOF
<1>1. CASE ThrowAway
  BY <1>1 DEF ThrowAway
<1>2. CASE PutOnLine(h, l)
  <2>1. CASE h \in { 0, currentHelper }
    BY <1>2, <2>1 DEF PutOnLine
  <2>2. CASE h \notin { 0, currentHelper }
    BY <1>2, <2>2 DEF PutOnLine, ServerTypeOK, SendTypeOK
  <2> QED
    BY <2>1, <2>2
<1> QED
  BY <1>1, <1>2 DEF SendPacket

LEMMA ModeKept ==
  ASSUME ServerInv, HelpersInv, ModeInv, ServerNext
  PROVE  ModeInv'
PROOF
<1> USE DEF ServerInv
<1>1. /\ ClientsTypeOK /\ HelpersTypeOK
      /\ stale \in [Helpers -> Nat] /\ dropped \in BOOLEAN
  BY DEF ServerTypeOK, SendTypeOK
<1>2. ASSUME UNCHANGED << kindOf, currentHelper >>,
             \A c \in Clients : pc[c] = "start" <=> pc'[c] = "start",
             \/ UNCHANGED << lastHelper, stale, dropped >>
             \/ \E h \in Helpers \cup {0}, l \in Levels \cup { NoLevel } : SendPacket(h, l)
      PROVE  ModeInv'
  <2>1. CASE UNCHANGED << lastHelper, stale, dropped >>
    BY <1>2, <2>1 DEF ModeInv, StartInstalled, CurrentOnLine, CurrentKind
  <2>2. ASSUME NEW h \in Helpers \cup {0}, NEW l, SendPacket(h, l), ~dropped',
               \A g \in Helpers : stale'[g] = 0
        PROVE  ModeInv'
    <3>1. stale' = stale /\ lastHelper' = IF h # 0 THEN h ELSE lastHelper
      BY <2>2, PacketsOfCurrent
    <3>2. ~dropped /\ h \in { 0, currentHelper }
      <4>1. CASE ThrowAway
        BY <2>2, <4>1 DEF ThrowAway
      <4>2. CASE PutOnLine(h, l)
        BY <1>1, <2>2, <3>1, <4>2, ServerAssumption DEF PutOnLine, Helpers
      <4> QED
        BY <2>2, <4>1, <4>2 DEF SendPacket
    <3>3. (\E c \in Clients : pc[c] = "start") \/ CurrentOnLine
      BY <2>2, <3>1, <3>2 DEF ModeInv, StartInstalled
    <3> QED
      BY <1>2, <3>1, <3>2, <3>3 DEF ModeInv, StartInstalled, CurrentOnLine, CurrentKind
  <2> QED
    BY <1>2, <2>1, <2>2 DEF ModeInv, StartInstalled
<1>3. ASSUME NEW c \in Clients, NEW r \in Requests, Call(c, r) PROVE ModeInv'
  <2>1. /\ pc[c] = "idle" /\ UNCHANGED << currentHelper, lastHelper, stale, dropped >>
        /\ Goto(c, "idle") \/ Goto(c, "cast") \/ Goto(c, "check") \/ Goto(c, "lock")
           \/ Goto(c, "send")
    BY <1>3, ServerAssumption
    DEF Call, NewHelper, UseHelper, CallSetBrightness, Request, sendVars
  <2>2. \A d \in Clients : pc[d] = "start" <=> pc'[d] = "start"
    BY <1>1, <2>1 DEF Goto, ClientsTypeOK
  <2>3. currentHelper # 0 => kindOf'[currentHelper] = kindOf[currentHelper]
    <3>1. CASE kindOf' = kindOf
      BY <3>1
    <3>2. CASE kindOf' # kindOf
      <4>1. \E k, next : NewHelper(c, k, next)
        BY <1>3, <3>2, ServerAssumption DEF Call, UseHelper, CallSetBrightness, Request
      <4>2. PICK h \in Helpers :
              /\ kindOf[h] = "unborn"
              /\ \A g \in Helpers : g # h => kindOf'[g] = kindOf[g]
        BY <1>1, <4>1 DEF NewHelper, HelpersTypeOK
      <4> QED
        BY <1>1, <4>2, ServerAssumption DEF HelpersInv, HelpersBorn, HelpersTypeOK, Helpers
    <3> QED
      BY <3>1, <3>2
  <2> QED
    BY <2>1, <2>2, <2>3 DEF ModeInv, StartInstalled, CurrentOnLine, CurrentKind
<1>4. ASSUME NEW c \in Clients, NEW label, Move(c, label) \/ Finish(c), pc[c] # "start", label # "start",
             UNCHANGED << kindOf, currentHelper >>,
             \/ UNCHANGED << lastHelper, stale, dropped >>
             \/ \E h \in Helpers \cup {0}, l \in Levels \cup { NoLevel } : SendPacket(h, l)
      PROVE  ModeInv'
  <2>1. \A d \in Clients : pc[d] = "start" <=> pc'[d] = "start"
    BY <1>1, <1>4 DEF Move, Finish, Goto, ClientsTypeOK
  <2> QED
    BY <1>2, <1>4, <2>1
<1>5. ASSUME NEW c \in Clients, Enter(c) \/ Check(c) \/ Assign(c) PROVE ModeInv'
  BY <1>4, <1>5 DEF Enter, EnterSend, EnterSetHelper, Check, Assign, helperVars, sendVars
<1>6. ASSUME NEW c \in Clients, Terminate(c) \/ Join(c) \/ JoinTimeout(c) PROVE ModeInv'
  BY <1>4, <1>6 DEF Terminate, Join, JoinTimeout, helperVars, sendVars
<1>7. ASSUME NEW c \in Clients, Cast(c) \/ Build(c) PROVE ModeInv'
  <2>1. \A d \in Clients : pc[d] = "start" <=> pc'[d] = "start"
    BY <1>1, <1>7 DEF Cast, Build, Finish, Goto, ClientsTypeOK
  <2> QED
    BY <1>2, <1>7, <2>1 DEF Cast, Build, helperVars, sendVars
<1>8. ASSUME NEW c \in Clients, Write(c) PROVE ModeInv'
  <2>1. todo[c] \in { "brightness", "freeze", "COLOR", "GAME" }
    BY <1>1, <1>8 DEF Write, RequestInHand, ClientsTypeOK
  <2>2. \E h \in Helpers \cup {0}, l \in Levels \cup { NoLevel } : SendPacket(h, l)
    BY <1>1, <1>8, <2>1 DEF Write, ClientsTypeOK
  <2> QED
    BY <1>4, <1>8, <2>2 DEF Write, helperVars
<1>9. ASSUME NEW c \in Clients, Install(c) PROVE ModeInv'
  <2>1. /\ pc[c] = "install" /\ pc' = [pc EXCEPT ![c] = "start"]
        /\ currentHelper' = mine[c]
    BY <1>9 DEF Install, Move, Goto
  <2>2. mine[c] # 0
    BY <2>1, ServerAssumption DEF HelpersInv, HelpersBorn, Replacing, Helpers
  <2> QED
    BY <1>1, <2>1, <2>2 DEF ClientsTypeOK, ModeInv, StartInstalled
<1>10. ASSUME NEW c \in Clients, Start(c) PROVE ModeInv'
  <2>0. StartInstalled'
    <3>1. \A d \in Clients : pc'[d] = "start" => pc[d] = "start"
      BY <1>1, <1>10 DEF Start, Move, Finish, Goto, ClientsTypeOK
    <3> QED
      BY <1>10, <3>1 DEF Start, ModeInv, StartInstalled
  <2>1. UNCHANGED << kindOf, currentHelper >>
    BY <1>10 DEF Start
  <2>2. CASE CurrentKind \in { "S2L", "GAME" }
    BY <2>0, <2>1, <2>2 DEF ModeInv, CurrentOnLine, CurrentKind
  <2>3. CASE CurrentKind \notin { "S2L", "GAME" }
    <3>1. SendPacket(currentHelper, NoLevel)
      BY <1>10, <2>3 DEF Start
    <3>2. CASE dropped'
      BY <2>0, <3>2 DEF ModeInv
    <3>3. CASE ~dropped'
      <4>1. CASE \E g \in Helpers : stale'[g] # 0
        BY <2>0, <4>1 DEF ModeInv
      <4>2. CASE ~\E g \in Helpers : stale'[g] # 0
        <5>1. lastHelper' = IF currentHelper # 0 THEN currentHelper ELSE lastHelper
          BY <1>1, <3>1, <3>3, <4>2, PacketsOfCurrent DEF HelpersTypeOK
        <5>2. currentHelper # 0
          BY <1>10 DEF Start, ModeInv, StartInstalled
        <5> QED
          BY <2>0, <2>1, <5>1, <5>2 DEF ModeInv, CurrentOnLine
      <4> QED
        BY <4>1, <4>2
    <3> QED
      BY <3>2, <3>3
  <2> QED
    BY <2>2, <2>3
<1>11. ASSUME NEW h \in Helpers, Dispatch(h) PROVE ModeInv'
  <2>1. UNCHANGED << clientVars, kindOf, currentHelper >>
    BY <1>11 DEF Dispatch, DispatcherRead, DispatcherEnter, DispatcherWrite
  <2>2. UNCHANGED << lastHelper, stale, dropped >> \/ SendPacket(h, NoLevel)
    BY <1>11 DEF Dispatch, DispatcherRead, DispatcherEnter, DispatcherWrite, sendVars
  <2> QED
    BY <1>2, <2>1, <2>2 DEF clientVars
<1>12. CASE Drain \/ Unplug \/ Replug
  BY <1>2, <1>12 DEF Drain, Unplug, Replug, clientVars, helperVars, sendVars
<1> QED
  BY <1>3, <1>5, <1>6, <1>7, <1>8, <1>9, <1>10, <1>11, <1>12 DEF ServerNext, Proceed

LEMMA ModeInvariant == ServerSpec => []ModeInv
PROOF
<1>1. ServerInit => ModeInv
  BY DEF ServerInit, ModeInv, StartInstalled, CurrentOnLine
<1>2. ServerInv /\ HelpersInv /\ ModeInv /\ [ServerNext]_serverVars => ModeInv'
  <2>1. CASE ServerNext
    BY <2>1, ModeKept
  <2>2. CASE UNCHANGED serverVars
    BY <2>2
    DEF serverVars, clientVars, helperVars, sendVars, ModeInv, StartInstalled,
        CurrentOnLine, CurrentKind
  <2> QED
    BY <2>1, <2>2
<1> QED
  BY <1>1, <1>2, ServerInvariant, HelpersInvariant, PTL DEF ServerSpec

(* Between requests the last mode packet on the line is the current        *)
(* helper's, unless a packet was thrown away or one came late.             *)
THEOREM CurrentHelperOnLine == ServerSpec => []ModeOnLine
PROOF
<1>1. ServerInv /\ ModeInv => ModeOnLine
  BY DEF ServerInv, ModeInv, StartInstalled, ModeOnLine, Quiet, CurrentOnLine
<1> QED
  BY <1>1, ServerInvariant, ModeInvariant, PTL

-----------------------------------------------------------------------------
(* What the other end of the line relies on: a helper keeps its class, and *)
(* one packet at a time is put on the line, by the owner of the monitor.   *)
LEMMA KindsStay ==
  ASSUME HelpersTypeOK, ServerNext
  PROVE  \A h \in Helpers : kindOf[h] # "unborn" => kindOf'[h] = kindOf[h]
PROOF
<1>1. ASSUME NEW c \in Clients, NEW r \in Requests, Call(c, r), kindOf' # kindOf
      PROVE  \A h \in Helpers : kindOf[h] # "unborn" => kindOf'[h] = kindOf[h]
  <2>1. \E k, next : NewHelper(c, k, next)
    BY <1>1, ServerAssumption DEF Call, UseHelper, CallSetBrightness, Request
  <2> QED
    BY <2>1 DEF NewHelper, HelpersTypeOK
<1>2. ASSUME NEW c \in Clients, Enter(c) \/ Proceed(c) PROVE kindOf' = kindOf
  BY <1>2
  DEF Enter, EnterSend, EnterSetHelper, Proceed, Cast, Check, Assign, Build, Write, Terminate,
      Join, JoinTimeout, Install, Start, helperVars
<1>3. CASE (\E h \in Helpers : Dispatch(h)) \/ Drain \/ Unplug \/ Replug
  BY <1>3
  DEF Dispatch, DispatcherRead, DispatcherEnter, DispatcherWrite, Drain, Unplug, Replug,
      helperVars
<1> QED
  BY <1>1, <1>2, <1>3 DEF ServerNext

LEMMA SendPacketAdds ==
  ASSUME NEW h, NEW l, SendPacket(h, l)
  PROVE  \/ UNCHANGED << awaiting, lastHelper, lastLevel >>
         \/ /\ awaiting' = awaiting + 1
            /\ lastHelper' = IF h # 0 THEN h ELSE lastHelper
            /\ lastLevel' = IF l # NoLevel THEN l ELSE lastLevel
PROOF
  BY DEF SendPacket, ThrowAway, PutOnLine

WriterAnnounced(c) ==
  /\ monitor = c /\ pc[c] = "write"
  /\ \/ /\ todo[c] = "brightness" /\ level[c] \in Levels
        /\ lastLevel' = level[c] /\ lastHelper' = lastHelper
     \/ todo[c] = "freeze" /\ UNCHANGED << lastHelper, lastLevel >>
     \/ /\ todo[c] \in { "COLOR", "GAME" }
        /\ mine[c] \in Helpers /\ kindOf[mine[c]] = todo[c]
        /\ lastHelper' = mine[c] /\ lastLevel' = lastLevel

StarterAnnounced(c) ==
  /\ monitor = c /\ pc[c] = "start"
  /\ currentHelper \in Helpers /\ kindOf[currentHelper] \in { "AMBIENT", "STROBE", "COLOR" }
  /\ lastHelper' = currentHelper /\ lastLevel' = lastLevel

AudioAnnounced(h) ==
  /\ monitor = h /\ kindOf[h] = "S2L"
  /\ lastHelper' = h /\ lastLevel' = lastLevel

PacketAnnounced ==
  \/ \E c \in Clients : WriterAnnounced(c) \/ StarterAnnounced(c)
  \/ \E h \in Helpers : AudioAnnounced(h)

LEMMA PacketsAreAnnounced ==
  ASSUME ServerInv, HelpersInv, StartInstalled, ServerNext
  PROVE  \/ awaiting' <= awaiting /\ UNCHANGED << lastHelper, lastLevel >>
         \/ awaiting' = awaiting + 1 /\ UNCHANGED kindOf /\ PacketAnnounced
PROOF
<1>1. /\ ClientsTypeOK /\ HelpersTypeOK /\ awaiting \in Nat
      /\ RequestInHand /\ MonitorHeld /\ 0 \notin Helpers /\ NoLevel \notin Levels
  BY ServerAssumption DEF ServerInv, ServerTypeOK, SendTypeOK, Helpers
<1>2. CASE UNCHANGED << awaiting, lastHelper, lastLevel >>
  BY <1>1, <1>2
<1>3. ASSUME NEW c \in Clients, Write(c), ~UNCHANGED << awaiting, lastHelper, lastLevel >>
      PROVE  awaiting' = awaiting + 1 /\ UNCHANGED kindOf /\ WriterAnnounced(c)
  <2>1. /\ monitor = c /\ pc[c] = "write" /\ UNCHANGED kindOf
        /\ todo[c] \in { "brightness", "freeze", "COLOR", "GAME" }
    BY <1>1, <1>3 DEF Write, helperVars, MonitorHeld, RequestInHand, ClientsTypeOK
  <2>2. CASE todo[c] = "brightness"
    <3>1. SendPacket(0, level[c]) /\ level[c] \in Levels
      BY <1>1, <1>3, <2>1, <2>2 DEF Write, RequestInHand
    <3> QED
      BY <1>1, <1>3, <2>1, <2>2, <3>1, SendPacketAdds DEF WriterAnnounced
  <2>3. CASE todo[c] = "freeze"
    <3>1. SendPacket(0, NoLevel)
      BY <1>3, <2>3 DEF Write
    <3> QED
      BY <1>3, <2>1, <2>3, <3>1, SendPacketAdds DEF WriterAnnounced
  <2>4. CASE todo[c] \in { "COLOR", "GAME" }
    <3>1. SendPacket(mine[c], NoLevel)
      BY <1>3, <2>4 DEF Write
    <3>2. mine[c] \in Helpers /\ kindOf[mine[c]] = todo[c]
      BY <2>1, <2>4 DEF HelpersInv, KindsFit, Sending
    <3> QED
      BY <1>1, <1>3, <2>1, <2>4, <3>1, <3>2, SendPacketAdds DEF WriterAnnounced
  <2> QED
    BY <2>1, <2>2, <2>3, <2>4
<1>4. ASSUME NEW c \in Clients, Start(c), ~UNCHANGED << awaiting, lastHelper, lastLevel >>
      PROVE  awaiting' = awaiting + 1 /\ UNCHANGED kindOf /\ StarterAnnounced(c)
  <2>1. monitor = c /\ pc[c] = "start" /\ UNCHANGED kindOf /\ currentHelper \in Helpers
    BY <1>1, <1>4 DEF Start, MonitorHeld, StartInstalled, HelpersTypeOK
  <2>2. SendPacket(currentHelper, NoLevel) /\ CurrentKind \notin { "S2L", "GAME" }
    BY <1>4 DEF Start, sendVars
  <2>3. kindOf[currentHelper] \in { "AMBIENT", "STROBE", "COLOR" }
    BY <1>1, <2>1, <2>2
    DEF CurrentKind, HelpersInv, HelpersBorn, HelpersTypeOK, Kinds
  <2> QED
    BY <1>1, <1>4, <2>1, <2>2, <2>3, SendPacketAdds DEF StarterAnnounced
<1>5. ASSUME NEW h \in Helpers, DispatcherWrite(h),
             ~UNCHANGED << awaiting, lastHelper, lastLevel >>
      PROVE  awaiting' = awaiting + 1 /\ UNCHANGED kindOf /\ AudioAnnounced(h)
  <2>1. SendPacket(h, NoLevel) /\ UNCHANGED kindOf /\ dispatcher[h] = "write"
    BY <1>5 DEF DispatcherWrite
  <2>2. monitor = h /\ kindOf[h] = "S2L"
    BY <1>1, <2>1 DEF MonitorHeld, HelpersInv, KindsFit
  <2> QED
    BY <1>1, <1>5, <2>1, <2>2, SendPacketAdds DEF AudioAnnounced
<1>6. CASE Drain \/ Unplug
  BY <1>1, <1>6 DEF Drain, Unplug
<1>7. \/ UNCHANGED sendVars
      \/ \E c \in Clients : Write(c) \/ Start(c)
      \/ \E h \in Helpers : DispatcherWrite(h)
      \/ Drain \/ Unplug
  BY DEF ServerNext, Call, Enter, EnterSend, EnterSetHelper, Proceed, Cast, Check, Assign,
         Build, Terminate, Join, JoinTimeout, Install, Dispatch, DispatcherRead,
         DispatcherEnter, Replug
<1> QED
  BY <1>2, <1>3, <1>4, <1>5, <1>6, <1>7 DEF sendVars, PacketAnnounced

-----------------------------------------------------------------------------
(* The flags of the S2L helper: what API threads and its audio thread do   *)
(* to them, whatever else the server does.                                 *)
FlagsTypeOK ==
  /\ doForceHit \in BOOLEAN /\ doForceStrobe \in BOOLEAN
  /\ audioPc \in { "process", "testHit", "resetHit", "testStrobe", "send", "done" }
  /\ flags \subseteq { "FORCE_HIT", "FORCE_STROBE" }
  /\ asks \in Nat /\ covered \in Nat /\ answered \in Nat /\ hits \in Nat

(* The field is set exactly while there is a hit that no packet covers.    *)
FieldMeansUncovered ==
  /\ answered <= covered /\ covered <= asks
  /\ doForceHit = FALSE => covered = asks
  /\ doForceHit = TRUE => covered < asks
  /\ audioPc = "resetHit" => doForceHit = TRUE

(* A packet that forces a hit covers one that no earlier packet did.       *)
FlagMeansNewHit ==
  /\ hits <= answered
  /\ audioPc \in { "testStrobe", "send" } /\ "FORCE_HIT" \in flags => hits < covered
  /\ audioPc \in { "testHit", "resetHit" } => flags = {}

FlagsInv == FlagsTypeOK /\ FieldMeansUncovered /\ FlagMeansNewHit

LEMMA FlagsInitInv == FlagsInit => FlagsInv
PROOF
<1> SUFFICES ASSUME FlagsInit PROVE FlagsInv
  OBVIOUS
<1>1. doForceHit \in BOOLEAN /\ doForceStrobe \in BOOLEAN
  BY Zenon DEF FlagsInit
<1>2. FlagsTypeOK
  BY <1>1 DEF FlagsInit, FlagsTypeOK
<1>3. FieldMeansUncovered
  BY DEF FlagsInit, FieldMeansUncovered
<1>4. FlagMeansNewHit
  BY DEF FlagsInit, FlagMeansNewHit
<1> QED
  BY <1>2, <1>3, <1>4 DEF FlagsInv

LEMMA FlagsStepInv == FlagsInv /\ [FlagsNext]_flagVars => FlagsInv'
PROOF
<1> SUFFICES ASSUME FlagsInv, [FlagsNext]_flagVars PROVE FlagsInv'
  OBVIOUS
<1> USE DEF FlagsInv, FlagsTypeOK, FieldMeansUncovered, FlagMeansNewHit
<1>1. CASE ForceHit
  BY <1>1 DEF ForceHit
<1>2. ASSUME NEW on \in BOOLEAN, ForceStrobe(on) PROVE FlagsInv'
  BY <1>2 DEF ForceStrobe, hitVars
<1>3. CASE Process
  BY <1>3 DEF Process, fields, hitVars
<1>4. CASE TestHit
  BY <1>4 DEF TestHit, fields, hitVars
<1>5. CASE ResetHit
  <2>1. covered < asks /\ covered' = asks /\ asks' = asks
    BY <1>5 DEF ResetHit
  <2>2. doForceHit' \in BOOLEAN
    BY Zenon, <1>5 DEF ResetHit
  <2>3. FlagsTypeOK'
    BY <1>5, <2>2 DEF ResetHit
  <2> QED
    BY <1>5, <2>1, <2>3 DEF ResetHit
<1>6. CASE TestStrobe
  BY <1>6 DEF TestStrobe, fields, hitVars
<1>7. CASE Send
  BY <1>7 DEF Send, fields
<1>8. CASE UNCHANGED flagVars
  BY <1>8 DEF flagVars, fields, hitVars
<1> QED
  BY <1>1, <1>2, <1>3, <1>4, <1>5, <1>6, <1>7, <1>8 DEF FlagsNext, Audio

(* However the API threads' stores and the audio thread's test and reset   *)
(* of doForceHit (S2LHelper.makeFlags) interleave, a hit that was asked    *)
(* for is still in the field or in a packet.                               *)
THEOREM NoHitForgotten == FlagsSpec => []HitNotForgotten
PROOF
<1>1. FlagsInv => HitNotForgotten
  BY DEF FlagsInv, FlagsTypeOK, FieldMeansUncovered, HitNotForgotten
<1> QED
  BY <1>1, FlagsInitInv, FlagsStepInv, PTL DEF FlagsSpec

(* The audio thread sends no more hits than were asked for: the reset      *)
(* comes before the packet, and makeFlags sets the flag only with it.      *)
THEOREM NoHitInvented == FlagsSpec => []HitsAskedFor
PROOF
<1>1. FlagsInv => HitsAskedFor
  BY DEF FlagsInv, FlagsTypeOK, FieldMeansUncovered, FlagMeansNewHit, HitsAskedFor
<1> QED
  BY <1>1, FlagsInitInv, FlagsStepInv, PTL DEF FlagsSpec
=============================================================================
