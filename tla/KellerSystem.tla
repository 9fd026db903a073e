---------------------------- MODULE KellerSystem ----------------------------
(***************************************************************************)
(* The installation: the server's threads, the serial line and the         *)
(* controller's loop.  The server's steps are LedServer's, the             *)
(* controller's are LightController's; this module adds the packets        *)
(* between them, whole ones, since SerialLink shows what bytes do to them. *)
(***************************************************************************)
EXTENDS Integers, Sequences, SequencesExt, FiniteSets

CONSTANTS
  \* of the server
  Clients, Free, Requests, MaxLevel, InitialLevel, NoLevel, BlockLimit,
  MaxHelpers, MaxUnplugs,
  \* of the controller
  DefaultLevel, SetupLevel, Unusable, NoPacket, AmbientTimeout, StrobeTimeout,
  FreezeDelay, LoopDelay, MaxStall, Wrap,
  MaxWire    \* packets the controller's receive buffer holds

VARIABLES
  \* of the server; clientPc is its pc
  clientPc, todo, mine, level, monitor, kindOf, currentHelper, dispatcher,
  stopped, ledBrightness, numBlockingPackets, portOpen, unplugs, awaiting,
  lastHelper, lastLevel, stale, raced, dropped, blockedRun,
  \* of the controller; loopPc is its pc
  loopPc, component, brightness, fastLedBrightness, painted, age, held, silence,
  lull, unhandled, wanted, ordered,
  line,      \* packets written and not completely read, the last awaiting ones
             \* of them still in the server's port
  disturbed  \* history: a packet was lost or the controller restarted

Server == INSTANCE LedServer WITH pc <- clientPc
Light  == INSTANCE LightController WITH pc <- loopPc, Levels <- 0 .. MaxLevel

(* What LedServer and LightController assume of the constants.             *)
ASSUME SystemAssumption ==
  /\ MaxHelpers \in Nat /\ MaxUnplugs \in Nat /\ BlockLimit \in Nat /\ MaxWire \in Nat
  /\ MaxLevel \in Nat \ {0}
  /\ IsFiniteSet(Clients) /\ Clients # {}
  /\ Free \notin Clients \cup Server!Helpers /\ Clients \cap Server!Helpers = {}
  /\ { InitialLevel, DefaultLevel, SetupLevel } \subseteq Server!Levels
  /\ NoLevel \notin Server!Levels /\ Unusable \notin Server!Levels
  /\ \A r \in Requests : r \in Server!Request
  /\ NoPacket \notin Light!Packet
  /\ StrobeTimeout \in Nat /\ AmbientTimeout \in Nat /\ StrobeTimeout < AmbientTimeout
  /\ FreezeDelay \in Nat /\ LoopDelay \in Nat \ {0} /\ MaxStall \in Nat
  /\ Wrap \in Nat
  /\ AmbientTimeout + FreezeDelay + LoopDelay + MaxStall < Wrap

serverVars == << clientPc, todo, mine, level, monitor, kindOf, currentHelper, dispatcher,
                 stopped, ledBrightness, numBlockingPackets, portOpen, unplugs, awaiting,
                 lastHelper, lastLevel, stale, raced, dropped, blockedRun >>
lightVars  == << loopPc, component, brightness, fastLedBrightness, painted, age, held,
                 silence, lull, unhandled, wanted, ordered >>
systemVars == << serverVars, lightVars, line, disturbed >>

SystemInit ==
  /\ Server!ServerInit
  /\ Light!LightInit
  /\ line = << >>
  /\ disturbed = FALSE

-----------------------------------------------------------------------------
ModeOf(kind) == IF kind \in { "COLOR", "GAME" } THEN "RAW" ELSE kind

PacketOf(type, content) == [type |-> type, content |-> content]

(* The packet that the owner of the monitor is about to write.             *)
Outgoing ==
  IF monitor \in Clients /\ clientPc[monitor] = "write" THEN
    CASE todo[monitor] = "brightness" -> PacketOf("SET_BRIGHTNESS", level[monitor])
      [] todo[monitor] = "freeze"     -> PacketOf("FREEZE_FRAME", DefaultLevel)
      [] OTHER                        -> PacketOf("RAW", DefaultLevel)
  ELSE PacketOf(IF monitor \in Clients THEN ModeOf(kindOf[currentHelper]) ELSE "S2L",
                DefaultLevel)

(* Mutant: a new packet overtakes the ones that are waiting.               *)
WrittenFirst == line' = << Outgoing >> \o line

Written == line' = Append(line, Outgoing)

ServerStep(requests) ==
  /\ \/ \E c \in Clients :
          (\E r \in requests : Server!Call(c, r)) \/ Server!Enter(c) \/ Server!Proceed(c)
     \/ \E h \in Server!Helpers : Server!Dispatch(h)
     \/ Server!Replug
  /\ IF awaiting' > awaiting THEN Written ELSE UNCHANGED line
  /\ UNCHANGED << lightVars, disturbed >>

OnWire == Len(line) - awaiting

(* A packet leaves the port; without room in the receive buffer it is lost. *)
Drain ==
  /\ Server!Drain
  /\ IF OnWire < MaxWire THEN UNCHANGED << line, disturbed >>
     ELSE line' = RemoveAt(line, OnWire + 1) /\ disturbed' = TRUE
  /\ UNCHANGED lightVars

Unplug ==
  /\ Server!Unplug
  /\ line' = SubSeq(line, 1, OnWire)
  /\ disturbed' = (disturbed \/ awaiting > 0)
  /\ UNCHANGED lightVars

(* Mutant: the packet stays in the receive buffer.                         *)
CompleteKept ==
  /\ OnWire > 0
  /\ Light!TickComplete(Head(line))
  /\ UNCHANGED << line, disturbed >>

(* The controller's passes; bytes of a damaged frame complete nothing.     *)
Complete ==
  /\ OnWire > 0
  /\ Light!TickComplete(Head(line))
  /\ line' = Tail(line)
  /\ UNCHANGED disturbed

Damaged ==
  /\ OnWire > 0
  /\ Light!TickPartial
  /\ line' = Tail(line)
  /\ disturbed' = TRUE

(* Bytes of a packet that has not left the port completely.  They complete *)
(* nothing yet, but the packet held until then is gone.                    *)
ReadPartly ==
  /\ OnWire = 0 /\ awaiting > 0
  /\ Light!TickPartial
  /\ UNCHANGED << line, disturbed >>

(* Mutant: tick() may find no byte although there is one.                  *)
LightStepLazy ==
  /\ \/ /\ \/ Light!FinishSetup \/ Light!Timeouts \/ Light!Animate \/ Light!Handle
           \/ Light!TickIdle
        /\ UNCHANGED << line, disturbed >>
     \/ Complete \/ Damaged \/ ReadPartly
  /\ UNCHANGED serverVars

LightStep ==
  /\ \/ /\ \/ Light!FinishSetup \/ Light!Timeouts \/ Light!Animate \/ Light!Handle
           \/ OnWire = 0 /\ Light!TickIdle
        /\ UNCHANGED << line, disturbed >>
     \/ Complete \/ Damaged \/ ReadPartly
  /\ UNCHANGED serverVars

(* The receive buffer is lost with the rest of the controller's memory.    *)
Restart ==
  /\ Light!OtaRestart
  /\ line' = SubSeq(line, OnWire + 1, Len(line))
  /\ disturbed' = TRUE
  /\ UNCHANGED serverVars

SystemNext == ServerStep(Requests) \/ Drain \/ Unplug \/ LightStep \/ Restart

SystemSpec == SystemInit /\ [][SystemNext]_systemVars

(* The controller's loop goes on, its wireless LAN comes up, and bytes     *)
(* leave an open port.                                                     *)
FairSystemSpec == SystemSpec /\ WF_systemVars(LightStep) /\ WF_systemVars(Drain)

-----------------------------------------------------------------------------
(***************************************************************************)
(* Properties.                                                             *)
(***************************************************************************)
AtRest ==
  /\ Server!Quiet /\ line = << >> /\ loopPc \notin { "setup", "handle" }
  /\ ~disturbed /\ ~dropped

(* With nothing under way and nothing lost, the controller shows the mode  *)
(* of the server's current helper, however requests, audio, timeouts and   *)
(* passes interleaved: but after a silence, or when a replaced helper came *)
(* late, or when the current one only sends when there is something to say *)
(* and has not yet.                                                        *)
ModesAgree ==
  AtRest /\ currentHelper # 0 =>
    \/ component = ModeOf(kindOf[currentHelper])
    \/ \E h \in Server!Helpers : stale[h] > 0
    \/ kindOf[currentHelper] \in { "S2L", "GAME" } /\ lastHelper # currentHelper
    \/ lull > StrobeTimeout

(* ... and has the brightness that the server remembers, once any was set; *)
(* otherwise setBrightness, which compares with the remembered one, could  *)
(* not correct it.                                                         *)
BrightnessAgrees ==
  AtRest /\ ~raced /\ lastLevel # NoLevel => brightness = ledBrightness

(* The modes behave as LightSwitch says: an order is a packet on its way   *)
(* or held and not yet handled; a packet that was handled is handled again *)
(* in every pass until the next byte comes.                                *)
OrderOf(p) == IF p.type \in Light!Modes THEN p.type ELSE Light!Other

OrdersIn(packets) == [i \in DOMAIN packets |-> OrderOf(packets[i])]

Waiting == IF unhandled THEN << held >> \o line ELSE line

Orders == OrdersIn(Waiting)

Kept ==
  IF held # NoPacket /\ ~unhandled THEN { OrderOf(held) } \ { Light!Other } ELSE {}

Switch ==
  INSTANCE LightSwitch WITH
    Mode     <- Light!Modes,
    Else     <- Light!Other,
    Fallback <- { "AMBIENT", Light!None },
    orders   <- Orders,
    shown    <- component,
    kept     <- Kept

IsLightSwitch == Switch!SwitchSpec

(* ... and as long as nothing is lost, orders do not wait for ever.        *)
OrdersObeyed == []~disturbed => Switch!NoOrderWaits
=============================================================================
