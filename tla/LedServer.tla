----------------------------- MODULE LedServer -----------------------------
(***************************************************************************)
(* LEDCommunicator and the threads that use it: the HTTP dispatcher and    *)
(* the WebSocket workers ("clients"), which serve one request at a time    *)
(* each, and the audio dispatcher thread of every S2LHelper that started.  *)
(*                                                                         *)
(* setHelper and sendPacket hold the communicator's monitor; getHelper,    *)
(* getLedBrightness and setBrightness do not.  A helper is the number of   *)
(* its setHelper call, 0 is the empty Optional.                            *)
(***************************************************************************)
EXTENDS Integers, FiniteSets

CONSTANTS
  Clients,       \* API threads
  Free,          \* the monitor's owner when it has none
  Requests,      \* what the clients ask for, see Request
  MaxLevel,      \* the brightest level (255)
  InitialLevel,  \* ledBrightness of a new server (200)
  NoLevel,       \* no brightness packet yet
  BlockLimit,    \* 5, the blocking packets tolerated
  MaxHelpers,    \* bound: setHelper calls in a behaviour
  MaxUnplugs     \* bound: how often the serial port goes away

Kinds   == { "AMBIENT", "STROBE", "S2L", "COLOR", "GAME" }
Helpers == 1 .. MaxHelpers
Levels  == 0 .. MaxLevel

(* Util.clip                                                               *)
Clip(v, low, high) == IF v < low THEN low ELSE IF v > high THEN high ELSE v

(* The WebSocket clips a level to 0 and up, the HTTP API to 1 and up.      *)
Request ==
  [act : { "mode" }, kind : { "AMBIENT", "STROBE", "S2L" }]
    \cup [act : { "color", "game", "freeze" }]
    \cup [act : { "brightness" }, level : Int, low : { 0, 1 }]
    \cup [act : { "relative" }, change : Int]

ASSUME ServerAssumption ==
  /\ MaxHelpers \in Nat /\ MaxUnplugs \in Nat /\ BlockLimit \in Nat
  /\ MaxLevel \in Nat \ {0}
  /\ Free \notin Clients \cup Helpers
  /\ Clients \cap Helpers = {}
  /\ InitialLevel \in Levels
  /\ NoLevel \notin Levels
  /\ \A r \in Requests : r \in Request

(* There are threads to serve requests, and not infinitely many.           *)
ASSUME ClientsAssumption == IsFiniteSet(Clients) /\ Clients # {}

VARIABLES
  pc,             \* [Clients -> where the thread is]
  todo,           \* [Clients -> what the request still has to do]
  mine,           \* [Clients -> the helper the thread holds a reference to]
  level,          \* [Clients -> the brightness the thread carries]
  monitor,        \* owner of the communicator's monitor
  kindOf,         \* [Helpers -> class of the helper, or "unborn"]
  currentHelper,
  dispatcher,     \* [Helpers -> where its audio thread is]
  stopped,        \* helpers whose dispatcher was told to stop
  ledBrightness,
  numBlockingPackets,
  portOpen,
  unplugs,
  awaiting,       \* packets written that have not left the port
  lastHelper,     \* history: the helper that wrote the last mode packet
  lastLevel,      \* history: the last brightness written
  stale,          \* history: [Helpers -> packets written after replacement]
  raced,          \* history: two setBrightness calls have overlapped
  dropped,        \* history: a packet was thrown away
  blockedRun      \* history: how many of the last packets in a row were blocked

clientVars == << pc, todo, mine, level >>
helperVars == << kindOf, currentHelper, dispatcher, stopped >>
portVars   == << portOpen, unplugs >>
sendVars   == << numBlockingPackets, awaiting, lastHelper, lastLevel, stale, dropped,
                 blockedRun >>
serverVars == << clientVars, monitor, helperVars, ledBrightness, portVars, sendVars,
                 raced >>

ServerInit ==
  /\ pc = [c \in Clients |-> "idle"]
  /\ todo = [c \in Clients |-> "nothing"]
  /\ mine = [c \in Clients |-> 0]
  /\ level = [c \in Clients |-> NoLevel]
  /\ monitor = Free
  /\ kindOf = [h \in Helpers |-> "unborn"]
  /\ currentHelper = 0
  /\ dispatcher = [h \in Helpers |-> "none"]
  /\ stopped = {}
  /\ ledBrightness = InitialLevel
  /\ numBlockingPackets = 0
  /\ portOpen = TRUE
  /\ unplugs = 0
  /\ awaiting = 0
  /\ lastHelper = 0
  /\ lastLevel = NoLevel
  /\ stale = [h \in Helpers |-> 0]
  /\ raced = FALSE
  /\ dropped = FALSE
  /\ blockedRun = 0

-----------------------------------------------------------------------------
(* sendPacket, past the monitor and getPort: nothing is awaiting, or the   *)
(* packet counts as blocking, or there have been too many of those.        *)
BlockedLate == awaiting > 1   \* Mutant: one packet still awaiting is not enough

Blocked == awaiting > 0

ThrowAway ==
  /\ Blocked
  /\ numBlockingPackets > BlockLimit
  /\ dropped' = TRUE
  /\ UNCHANGED << numBlockingPackets, awaiting, lastHelper, lastLevel, stale >>

(* Mutant: the counter is decremented below zero.                          *)
PutOnLineUnderflow(h, l) ==
  /\ ~(Blocked /\ numBlockingPackets > BlockLimit)
  /\ numBlockingPackets' = numBlockingPackets + (IF Blocked THEN 1 ELSE -1)
  /\ awaiting' = awaiting + 1
  /\ UNCHANGED << lastHelper, lastLevel, stale, dropped >>

PutOnLine(h, l) ==
  /\ ~(Blocked /\ numBlockingPackets > BlockLimit)
  /\ numBlockingPackets' =
       IF Blocked THEN numBlockingPackets + 1
       ELSE IF numBlockingPackets > 0 THEN numBlockingPackets - 1
       ELSE 0
  /\ awaiting' = awaiting + 1
  /\ lastHelper' = IF h # 0 THEN h ELSE lastHelper
  /\ lastLevel' = IF l # NoLevel THEN l ELSE lastLevel
  /\ stale' = IF h \notin { 0, currentHelper } THEN [stale EXCEPT ![h] = @ + 1]
              ELSE stale
  /\ UNCHANGED dropped

(* h is the helper that sends a mode packet or 0, l a brightness or        *)
(* NoLevel.  While the port is closed getPort waits inside the monitor.    *)
SendPacket(h, l) ==
  /\ portOpen
  /\ ThrowAway \/ PutOnLine(h, l)
  /\ blockedRun' = IF ~Blocked THEN 0
                   ELSE IF blockedRun < BlockLimit THEN blockedRun + 1
                   ELSE BlockLimit

Goto(c, label) == pc' = [pc EXCEPT ![c] = label]

Move(c, label) == Goto(c, label) /\ UNCHANGED << todo, mine, level >>

(* The request ends, and with it the thread's local variables.             *)
Finish(c) ==
  /\ Goto(c, "idle")
  /\ todo' = [todo EXCEPT ![c] = "nothing"]
  /\ mine' = [mine EXCEPT ![c] = 0]
  /\ level' = [level EXCEPT ![c] = NoLevel]

CurrentKind == IF currentHelper = 0 THEN "unborn" ELSE kindOf[currentHelper]

-----------------------------------------------------------------------------
(* HttpApi.handle and WSApi.onMessage: what they do before they need the   *)
(* monitor or write a field.                                               *)

(* A new helper of kind k, and a call of setHelper with it.                *)
NewHelper(c, k, next) ==
  /\ \E h \in Helpers :
       /\ kindOf[h] = "unborn"
       /\ \A g \in Helpers : kindOf[g] = "unborn" => h <= g
       /\ kindOf' = [kindOf EXCEPT ![h] = k]
       /\ mine' = [mine EXCEPT ![c] = h]
  /\ todo' = [todo EXCEPT ![c] = next]
  /\ Goto(c, "lock")
  /\ UNCHANGED level

(* Use the current helper if it already is of kind k, else replace it.     *)
UseHelper(c, k, next) ==
  IF CurrentKind = k
    THEN /\ todo' = [todo EXCEPT ![c] = k]
         /\ Goto(c, "cast")
         /\ UNCHANGED << mine, level, kindOf >>
    ELSE NewHelper(c, k, next)

CallSetBrightness(c, l) ==
  /\ level' = [level EXCEPT ![c] = l]
  /\ todo' = [todo EXCEPT ![c] = "brightness"]
  /\ Goto(c, "check")
  /\ UNCHANGED << mine, kindOf >>

(* led_brightness_relative reads the level outside the monitor.            *)
Call(c, r) ==
  /\ pc[c] = "idle"
  /\ CASE r.act = "mode"       -> NewHelper(c, r.kind, "nothing")
       [] r.act = "color"      -> UseHelper(c, "COLOR", "nothing")
       [] r.act = "game"       -> UseHelper(c, "GAME", "GAME")
       [] r.act = "brightness" -> CallSetBrightness(c, Clip(r.level, r.low, MaxLevel))
       [] r.act = "relative"   -> CallSetBrightness(c, Clip(ledBrightness + r.change, 1, MaxLevel))
       [] r.act = "freeze"     -> /\ todo' = [todo EXCEPT ![c] = "freeze"]
                                  /\ Goto(c, "send")
                                  /\ UNCHANGED << mine, level, kindOf >>
  /\ UNCHANGED << monitor, currentHelper, dispatcher, stopped, ledBrightness,
                  portVars, sendVars, raced >>

(* The helper is read once more and cast: setColor and processGameData are *)
(* called on whatever helper is current now, and the request ends with an  *)
(* exception when that is of another kind.  Game data with senseless       *)
(* engine speeds is ignored.                                               *)
Cast(c) ==
  /\ pc[c] = "cast"
  /\ \/ /\ CurrentKind = todo[c]
        /\ mine' = [mine EXCEPT ![c] = currentHelper]
        /\ Goto(c, "send")
        /\ UNCHANGED << todo, level >>
     \/ (CurrentKind # todo[c] \/ todo[c] = "GAME") /\ Finish(c)
  /\ UNCHANGED << monitor, helperVars, ledBrightness, portVars, sendVars, raced >>

-----------------------------------------------------------------------------
(* setBrightness: compare, assign, build the packet from the field, send.  *)
SettingBrightness ==
  { c \in Clients : \/ pc[c] \in { "assign", "build" }
                    \/ pc[c] \in { "send", "write" } /\ todo[c] = "brightness" }

Check(c) ==
  /\ pc[c] = "check"
  /\ IF ledBrightness = level[c]
       THEN Finish(c) /\ UNCHANGED raced
       ELSE Move(c, "assign") /\ raced' = (raced \/ SettingBrightness # {})
  /\ UNCHANGED << monitor, helperVars, ledBrightness, portVars, sendVars >>

(* Mutant: the level is remembered but not sent.                           *)
AssignOnly(c) ==
  /\ pc[c] = "assign"
  /\ ledBrightness' = level[c]
  /\ Finish(c)
  /\ UNCHANGED << monitor, helperVars, portVars, sendVars, raced >>

Assign(c) ==
  /\ pc[c] = "assign"
  /\ ledBrightness' = level[c]
  /\ Move(c, "build")
  /\ UNCHANGED << monitor, helperVars, portVars, sendVars, raced >>

Build(c) ==
  /\ pc[c] = "build"
  /\ level' = [level EXCEPT ![c] = ledBrightness]
  /\ Goto(c, "send")
  /\ UNCHANGED << todo, mine, monitor, helperVars, ledBrightness, portVars, sendVars,
                  raced >>

(* sendPacket outside setHelper: enter the monitor, write, leave.          *)
EnterSend(c) ==
  /\ pc[c] = "send"
  /\ monitor = Free
  /\ monitor' = c
  /\ Move(c, "write")
  /\ UNCHANGED << helperVars, ledBrightness, portVars, sendVars, raced >>

Write(c) ==
  /\ pc[c] = "write"
  /\ CASE todo[c] = "brightness"        -> SendPacket(0, level[c])
       [] todo[c] = "freeze"            -> SendPacket(0, NoLevel)
       [] todo[c] \in { "COLOR", "GAME" } -> SendPacket(mine[c], NoLevel)
  /\ monitor' = Free
  /\ Finish(c)
  /\ UNCHANGED << helperVars, ledBrightness, portVars, raced >>

-----------------------------------------------------------------------------
(* setHelper, all of it inside the monitor.                                *)
EnterSetHelper(c) ==
  /\ pc[c] = "lock"
  /\ monitor = Free
  /\ monitor' = c
  /\ Move(c, "terminate")
  /\ UNCHANGED << helperVars, ledBrightness, portVars, sendVars, raced >>

(* Only an S2LHelper that has started has anything to terminate.           *)
HasDispatcher == currentHelper # 0 /\ dispatcher[currentHelper] # "none"

(* Mutant: the old helper is not terminated.                               *)
TerminateNothing(c) ==
  /\ pc[c] = "terminate"
  /\ Move(c, "install")
  /\ UNCHANGED << monitor, helperVars, ledBrightness, portVars, sendVars, raced >>

Terminate(c) ==
  /\ pc[c] = "terminate"
  /\ stopped' = IF HasDispatcher THEN stopped \cup { currentHelper } ELSE stopped
  /\ Move(c, IF HasDispatcher THEN "join" ELSE "install")
  /\ UNCHANGED << monitor, kindOf, currentHelper, dispatcher, ledBrightness, portVars,
                  sendVars, raced >>

Join(c) ==
  /\ pc[c] = "join"
  /\ dispatcher[currentHelper] = "done"
  /\ Move(c, "install")
  /\ UNCHANGED << monitor, helperVars, ledBrightness, portVars, sendVars, raced >>

(* Mutant: join() without a timeout.                                       *)
JoinForever(c) ==
  /\ pc[c] = "join"
  /\ dispatcher[currentHelper] = "done"
  /\ Move(c, "install")
  /\ UNCHANGED << monitor, helperVars, ledBrightness, portVars, sendVars, raced >>

(* join(5000) gives up, with the dispatcher still running.                 *)
JoinTimeout(c) ==
  /\ pc[c] = "join"
  /\ dispatcher[currentHelper] # "done"
  /\ Move(c, "install")
  /\ UNCHANGED << monitor, helperVars, ledBrightness, portVars, sendVars, raced >>

Install(c) ==
  /\ pc[c] = "install"
  /\ currentHelper' = mine[c]
  /\ Move(c, "start")
  /\ UNCHANGED << monitor, kindOf, dispatcher, stopped, ledBrightness, portVars,
                  sendVars, raced >>

(* Mutant: no helper sends its packet when it starts.                      *)
StartSilently(c) ==
  /\ pc[c] = "start"
  /\ monitor' = Free
  /\ IF todo[c] = "GAME" THEN Move(c, "cast") ELSE Finish(c)
  /\ UNCHANGED << helperVars, ledBrightness, portVars, sendVars, raced >>

(* start(): ambient, strobe and colour send their packet; S2L starts its   *)
(* dispatcher unless there is no audio line; the game waits for data.      *)
Start(c) ==
  /\ pc[c] = "start"
  /\ CASE CurrentKind = "S2L" ->
            /\ \E d \in { "read", "none" } :
                 dispatcher' = [dispatcher EXCEPT ![currentHelper] = d]
            /\ UNCHANGED sendVars
       [] CurrentKind = "GAME" -> UNCHANGED << dispatcher, sendVars >>
       [] OTHER -> SendPacket(currentHelper, NoLevel) /\ UNCHANGED dispatcher
  /\ monitor' = Free
  /\ IF todo[c] = "GAME" THEN Move(c, "cast") ELSE Finish(c)
  /\ UNCHANGED << kindOf, currentHelper, stopped, ledBrightness, portVars, raced >>

-----------------------------------------------------------------------------
(* The audio thread of helper h: a block is read, processed and sent; told *)
(* to stop, the thread ends instead of reading or processing another.  It  *)
(* also ends when the audio line does.                                     *)

(* Mutant: it does not look whether it was told to stop.                   *)
DispatcherReadOn(h) ==
  /\ dispatcher[h] = "read"
  /\ dispatcher' = [dispatcher EXCEPT ![h] = "send"]
  /\ UNCHANGED << clientVars, monitor, kindOf, currentHelper, stopped, ledBrightness,
                  portVars, sendVars, raced >>

DispatcherRead(h) ==
  /\ dispatcher[h] = "read"
  /\ \E d \in { "send", "done" } :
       /\ d = "send" => h \notin stopped
       /\ dispatcher' = [dispatcher EXCEPT ![h] = d]
  /\ UNCHANGED << clientVars, monitor, kindOf, currentHelper, stopped, ledBrightness,
                  portVars, sendVars, raced >>

DispatcherEnter(h) ==
  /\ dispatcher[h] = "send"
  /\ monitor = Free
  /\ monitor' = h
  /\ dispatcher' = [dispatcher EXCEPT ![h] = "write"]
  /\ UNCHANGED << clientVars, kindOf, currentHelper, stopped, ledBrightness, portVars,
                  sendVars, raced >>

DispatcherWrite(h) ==
  /\ dispatcher[h] = "write"
  /\ SendPacket(h, NoLevel)
  /\ monitor' = Free
  /\ dispatcher' = [dispatcher EXCEPT ![h] = "read"]
  /\ UNCHANGED << clientVars, kindOf, currentHelper, stopped, ledBrightness, portVars,
                  raced >>

-----------------------------------------------------------------------------
(* The serial port: packets leave it, the cable is pulled and put back.    *)
Drain ==
  /\ portOpen
  /\ awaiting > 0
  /\ awaiting' = awaiting - 1
  /\ UNCHANGED << clientVars, monitor, helperVars, ledBrightness, portVars,
                  numBlockingPackets, lastHelper, lastLevel, stale, dropped,
                  blockedRun, raced >>

Unplug ==
  /\ portOpen
  /\ unplugs < MaxUnplugs
  /\ portOpen' = FALSE
  /\ unplugs' = unplugs + 1
  /\ awaiting' = 0
  /\ UNCHANGED << clientVars, monitor, helperVars, ledBrightness, numBlockingPackets,
                  lastHelper, lastLevel, stale, dropped, blockedRun, raced >>

Replug ==
  /\ ~portOpen
  /\ portOpen' = TRUE
  /\ UNCHANGED << clientVars, monitor, helperVars, ledBrightness, unplugs, sendVars,
                  raced >>

Enter(c) == EnterSend(c) \/ EnterSetHelper(c)

Proceed(c) ==
  \/ Cast(c) \/ Check(c) \/ Assign(c) \/ Build(c) \/ Write(c)
  \/ Terminate(c) \/ Join(c) \/ JoinTimeout(c) \/ Install(c) \/ Start(c)

Dispatch(h) == DispatcherRead(h) \/ DispatcherEnter(h) \/ DispatcherWrite(h)

ServerNext ==
  \/ \E c \in Clients : (\E r \in Requests : Call(c, r)) \/ Enter(c) \/ Proceed(c)
  \/ \E h \in Helpers : Dispatch(h)
  \/ Drain \/ Unplug \/ Replug

ServerSpec == ServerInit /\ [][ServerNext]_serverVars

(* Threads that can run do, join's timeout expires, the cable is put back. *)
(* A Java monitor is not fair, but the audio thread is out of it most of   *)
(* the time: a client that waits gets in if the monitor keeps being free.  *)
ServerFairness ==
  /\ \A c \in Clients : WF_serverVars(Proceed(c)) /\ SF_serverVars(Enter(c))
  /\ \A h \in Helpers : WF_serverVars(Dispatch(h))
  /\ WF_serverVars(Replug)

FairServerSpec == ServerSpec /\ ServerFairness
-----------------------------------------------------------------------------
(***************************************************************************)
(* Properties.                                                             *)
(***************************************************************************)
ClientsTypeOK ==
  /\ pc \in [Clients -> { "idle", "cast", "check", "assign", "build", "send", "write",
                          "lock", "terminate", "join", "install", "start" }]
  /\ todo \in [Clients -> { "nothing", "brightness", "freeze", "COLOR", "GAME" }]
  /\ mine \in [Clients -> Helpers \cup {0}]
  /\ level \in [Clients -> Levels \cup { NoLevel }]

HelpersTypeOK ==
  /\ kindOf \in [Helpers -> Kinds \cup { "unborn" }]
  /\ currentHelper \in Helpers \cup {0}
  /\ dispatcher \in [Helpers -> { "none", "read", "send", "write", "done" }]
  /\ stopped \subseteq Helpers

SendTypeOK ==
  /\ numBlockingPackets \in 0 .. BlockLimit + 1
  /\ awaiting \in Nat
  /\ lastHelper \in Helpers \cup {0}
  /\ lastLevel \in Levels \cup { NoLevel }
  /\ stale \in [Helpers -> Nat]
  /\ dropped \in BOOLEAN
  /\ blockedRun \in 0 .. BlockLimit

(* Types; the counter of blocking packets never leaves 0 .. BlockLimit + 1. *)
ServerTypeOK ==
  /\ ClientsTypeOK /\ HelpersTypeOK /\ SendTypeOK
  /\ monitor \in Clients \cup Helpers \cup { Free }
  /\ ledBrightness \in Levels
  /\ portOpen \in BOOLEAN /\ unplugs \in 0 .. MaxUnplugs
  /\ raced \in BOOLEAN

(* The counter of blocking packets bounds the backlog of the port: however *)
(* sends and the draining of the port interleave, at most BlockLimit + 2   *)
(* packets are ever awaiting.                                              *)
BacklogBounded == awaiting <= numBlockingPackets + 1 /\ awaiting <= BlockLimit + 2

(* The threads that are inside setHelper or sendPacket own the monitor, so *)
(* frames never interleave on the line.                                    *)
MonitorHeld ==
  /\ \A c \in Clients :
       pc[c] \in { "write", "terminate", "join", "install", "start" } => monitor = c
  /\ \A h \in Helpers : dispatcher[h] = "write" => monitor = h

(* No audio thread runs on for a helper that has been replaced: it is      *)
(* always told to stop first, even when join gives up on it.               *)
OnlyCurrentDispatches ==
  \A h \in Helpers :
    dispatcher[h] \notin { "none", "done" } /\ h # currentHelper => h \in stopped

(* A helper that has been replaced still writes packets, but an S2L helper *)
(* one at most, and a colour or game helper one for every other client     *)
(* that had a reference to it.                                             *)
StaleBounded ==
  \A h \in Helpers :
    stale[h] <= IF kindOf[h] = "S2L" THEN 1 ELSE Cardinality(Clients) - 1

Quiet == \A c \in Clients : pc[c] = "idle"

(* With no request under way, the last mode packet on the line came from   *)
(* the current helper: unless one was thrown away, or a replaced helper    *)
(* sent one late, or the helper only sends when there is something to say. *)
ModeOnLine ==
  Quiet /\ ~dropped /\ (\A h \in Helpers : stale[h] = 0) =>
    lastHelper = currentHelper \/ CurrentKind \in { "S2L", "GAME" }

(* With no request under way, the last brightness on the line is the one   *)
(* the server remembers: unless a packet was thrown away or two calls of   *)
(* setBrightness overlapped.  Otherwise later calls with the remembered    *)
(* value would be dropped as redundant for good.                           *)
BrightnessOnLine ==
  Quiet /\ ~dropped /\ ~raced =>
    \/ lastLevel = ledBrightness
    \/ lastLevel = NoLevel /\ ledBrightness = InitialLevel

(* Every request is served, though setHelper waits in the monitor for an   *)
(* audio thread that may be waiting for the monitor.                       *)
RequestsServed == \A c \in Clients : pc[c] # "idle" ~> pc[c] = "idle"

(* LEDCommunicator.java:59, "The last 5 packets have been blocking,        *)
(* throwing away current one".                                             *)
ThrownAwayAfterBlocked ==
  [][dropped' # dropped => blockedRun = BlockLimit]_serverVars
=============================================================================
