-------------------------- MODULE LightController --------------------------
(***************************************************************************)
(* main.cpp of the LED controller: setup(), then loop() for ever.          *)
(*                                                                         *)
(* A pass of loop() is serving the OTA web server and judging the timeouts *)
(* ("top"), one frame of the current component ("animate"), reading the    *)
(* serial port ("tick") and, when the parser holds a packet, handling it   *)
(* ("handle").  The parser appears by its interface: it holds a completed  *)
(* packet until the next byte is read (module SerialParser has the bytes). *)
(*                                                                         *)
(* Time is counted in an abstract unit.  The code reads the clock only as  *)
(* millis() - lastPacket, an unsigned difference that wraps, so that       *)
(* difference is the state.                                                *)
(***************************************************************************)
EXTENDS Integers

CONSTANTS
  Levels,          \* brightness values
  DefaultLevel,    \* brightness of a new controller (100)
  SetupLevel,      \* FastLED's brightness during setup (10)
  Unusable,        \* content too short, or not decompressible
  NoPacket,        \* what the parser holds between two packets
  AmbientTimeout,  \* silence after which ambient mode returns (10 s)
  StrobeTimeout,   \* silence after which the strobe ends (5 s)
  FreezeDelay,     \* how long FREEZE_FRAME blocks the loop (1 s)
  LoopDelay,       \* the delay at the end of a pass
  MaxStall,        \* bound: how long the web server may hold up a pass
  Wrap             \* the clock counts modulo this (2^32 ms)

Modes == { "S2L", "AMBIENT", "STROBE", "RAW" }
None  == "none"            \* currentComponent is a null pointer
Other == "other"           \* LEGACY and the types 8 to 20 the parser lets through

(* Content matters to main.cpp in three kinds of packets: a brightness may *)
(* be missing, raw colours may be too short or broken.                     *)
Packet ==
  [type : { "SET_BRIGHTNESS" }, content : Levels \cup { Unusable }]
    \cup [type : { "RAW" }, content : { DefaultLevel, Unusable }]
    \cup [type : (Modes \ { "RAW" }) \cup { "FREEZE_FRAME", Other },
          content : { DefaultLevel }]

ASSUME LightAssumption ==
  /\ DefaultLevel \in Levels /\ SetupLevel \in Levels
  /\ Unusable \notin Levels
  /\ NoPacket \notin Packet
  /\ StrobeTimeout \in Nat /\ AmbientTimeout \in Nat
  /\ StrobeTimeout < AmbientTimeout
  /\ FreezeDelay \in Nat /\ LoopDelay \in Nat \ {0} /\ MaxStall \in Nat
  /\ Wrap \in Nat
  \* no single pass is as long as the clock's period
  /\ AmbientTimeout + FreezeDelay + LoopDelay + MaxStall < Wrap

VARIABLES
  pc,                 \* where loop() is
  component,          \* mode of currentComponent, or None
  brightness,         \* the program's brightness
  fastLedBrightness,  \* the brightness the LED library was told
  painted,            \* who last wrote the LED array
  age,                \* millis() - lastPacket
  held,               \* the packet getHasNewPacket() reports, or NoPacket
  silence,            \* history: time since a frame was completed, saturating
  lull,               \* history: longest silence since a mode was ordered
  unhandled,          \* history: the held packet has not been handled yet
  wanted,             \* history: mode last ordered since startup
  ordered             \* history: brightness last ordered since startup

lightVars == << pc, component, brightness, fastLedBrightness, painted, age, held,
                silence, lull, unhandled, wanted, ordered >>
history   == << unhandled, wanted, ordered >>

(* Global initialisers, and setup() up to the wait for the wireless LAN.   *)
LightInit ==
  /\ pc = "setup"
  /\ component = "AMBIENT"
  /\ brightness = DefaultLevel
  /\ fastLedBrightness = SetupLevel
  /\ painted = "setup"
  /\ age = 0
  /\ held = NoPacket
  /\ silence = 0
  /\ lull = 0
  /\ unhandled = FALSE
  /\ wanted = "AMBIENT"
  /\ ordered = DefaultLevel

SilenceCap == AmbientTimeout + 1

Later(t, d) == (t + d) % Wrap

(* The silence goes on for d.                                              *)
Lengthen(d) ==
  /\ silence' = IF silence + d < SilenceCap THEN silence + d ELSE SilenceCap
  /\ lull' = IF lull < silence' THEN silence' ELSE lull

-----------------------------------------------------------------------------
(* Mutant: setup() forgets its last setBrightness.                         *)
FinishSetupDim ==
  /\ pc = "setup"
  /\ pc' = "top"
  /\ age' = 0
  /\ UNCHANGED << component, brightness, fastLedBrightness, painted, held, silence, lull,
                  history >>

(* The rest of setup(), once the wireless LAN is up.                       *)
FinishSetup ==
  /\ pc = "setup"
  /\ pc' = "top"
  /\ fastLedBrightness' = brightness
  /\ age' = 0
  /\ UNCHANGED << component, brightness, painted, held, silence, lull, history >>

(* Mutants: the ambient timeout needs a component; the strobe timeout does *)
(* not ask for the mode.                                                   *)
AmbientDueUnlessNone(a) == a > AmbientTimeout /\ component \notin { "AMBIENT", None }
StrobeDueAnyMode(a)     == a > StrobeTimeout

AmbientDue(a) == a > AmbientTimeout /\ component # "AMBIENT"
StrobeDue(a)  == a > StrobeTimeout /\ component = "STROBE"

(* doOtaLoop() and the two timeouts; the ambient one also ends a strobe.   *)
Timeouts ==
  /\ pc = "top"
  /\ \E stall \in 0 .. MaxStall :
       LET a == Later(age, stall)
       IN  /\ age' = a
           /\ Lengthen(stall)
           /\ component' = IF AmbientDue(a) THEN "AMBIENT"
                           ELSE IF StrobeDue(a) THEN None
                           ELSE component
  /\ pc' = "animate"
  /\ UNCHANGED << brightness, fastLedBrightness, painted, held, history >>

(* An uploaded firmware makes doOtaLoop() restart the controller.          *)
OtaRestart ==
  /\ pc = "top"
  /\ pc' = "setup"
  /\ component' = "AMBIENT"
  /\ brightness' = DefaultLevel
  /\ fastLedBrightness' = SetupLevel
  /\ painted' = "setup"
  /\ age' = 0
  /\ held' = NoPacket
  /\ silence' = 0
  /\ lull' = 0
  /\ unhandled' = FALSE
  /\ wanted' = "AMBIENT"
  /\ ordered' = DefaultLevel

(* currentComponent->loop(); raw colours are static.                       *)
Animate ==
  /\ pc = "animate"
  /\ painted' = IF component \in { None, "RAW" } THEN painted ELSE component
  /\ pc' = "tick"
  /\ UNCHANGED << component, brightness, fastLedBrightness, age, held, silence,
                  lull, history >>

(* The pass ends without a packet.                                         *)
EndPass ==
  /\ pc' = "top"
  /\ age' = Later(age, LoopDelay)
  /\ Lengthen(LoopDelay)

(* tick() finds no byte: a packet already handled is still there.          *)
TickIdle ==
  /\ pc = "tick"
  /\ IF held = NoPacket
       THEN EndPass
       ELSE pc' = "handle" /\ UNCHANGED << age, silence, lull >>
  /\ UNCHANGED << component, brightness, fastLedBrightness, painted, held, history >>

(* tick() reads bytes that complete no frame.                              *)
TickPartial ==
  /\ pc = "tick"
  /\ held' = NoPacket
  /\ EndPass
  /\ UNCHANGED << component, brightness, fastLedBrightness, painted, history >>

(* Mutant: tick() reads on as long as there are bytes.                     *)
TickReadsOn(p) ==
  /\ pc = "tick"
  /\ held' = p
  /\ silence' = 0
  /\ lull' = IF p.type \in Modes THEN 0 ELSE lull
  /\ unhandled' = TRUE
  /\ wanted' = IF p.type \in Modes THEN p.type ELSE wanted
  /\ ordered' = ordered
  /\ pc' \in { "tick", "handle" }
  /\ UNCHANGED << component, brightness, fastLedBrightness, painted, age >>

(* tick() reads up to the end of a frame, and no further.                  *)
TickComplete(p) ==
  /\ pc = "tick"
  /\ held' = p
  /\ silence' = 0
  /\ lull' = IF p.type \in Modes THEN 0 ELSE lull
  /\ unhandled' = TRUE
  /\ wanted' = IF p.type \in Modes THEN p.type ELSE wanted
  /\ ordered' = IF p.type = "SET_BRIGHTNESS" /\ p.content # Unusable
                  THEN p.content ELSE ordered
  /\ pc' = "handle"
  /\ UNCHANGED << component, brightness, fastLedBrightness, painted, age >>

(* processSetBrightness                                                    *)
ProcessSetBrightness ==
  IF held.type = "SET_BRIGHTNESS" /\ held.content \notin { Unusable, brightness }
    THEN /\ brightness' = held.content
         /\ fastLedBrightness' = held.content
    ELSE UNCHANGED << brightness, fastLedBrightness >>

(* start() draws at once, but for raw colours that cannot be read.         *)
StartPaints == held.type \in Modes /\ held.content # Unusable

(* Mutant: lastPacket is not updated.                                      *)
HandleKeepsClock ==
  /\ pc = "handle"
  /\ component' = IF held.type \in Modes THEN held.type ELSE component
  /\ ProcessSetBrightness
  /\ painted' = IF StartPaints THEN held.type ELSE painted
  /\ age' = Later(age, LoopDelay)
  /\ Lengthen(LoopDelay)
  /\ unhandled' = FALSE
  /\ pc' = "top"
  /\ UNCHANGED << held, wanted, ordered >>

(* The rest of loop(): switch the component, act on the packet, start the  *)
(* component with it.                                                      *)
Handle ==
  /\ pc = "handle"
  /\ component' = IF held.type \in Modes THEN held.type ELSE component
  /\ ProcessSetBrightness
  /\ painted' = IF StartPaints THEN held.type ELSE painted
  /\ LET spent == LoopDelay + (IF held.type = "FREEZE_FRAME" THEN FreezeDelay ELSE 0)
     IN  /\ age' = Later(0, spent)
         /\ Lengthen(spent)
  /\ unhandled' = FALSE
  /\ pc' = "top"
  /\ UNCHANGED << held, wanted, ordered >>

Pass ==
  \/ Timeouts
  \/ Animate
  \/ TickIdle
  \/ TickPartial
  \/ \E p \in Packet : TickComplete(p)
  \/ Handle

LightNext == FinishSetup \/ Pass \/ OtaRestart

(* The Arduino core calls loop() again and again.                          *)
LightSpec == LightInit /\ [][LightNext]_lightVars /\ WF_lightVars(Pass)
-----------------------------------------------------------------------------
(***************************************************************************)
(* Properties.                                                             *)
(***************************************************************************)
LightTypeOK ==
  /\ pc \in { "setup", "top", "animate", "tick", "handle" }
  /\ component \in Modes \cup { None }
  /\ brightness \in Levels /\ fastLedBrightness \in Levels /\ ordered \in Levels
  /\ painted \in Modes \cup { "setup" }
  /\ age \in 0 .. Wrap - 1
  /\ silence \in 0 .. SilenceCap /\ lull \in 0 .. SilenceCap
  /\ held \in Packet \cup { NoPacket }
  /\ unhandled \in BOOLEAN
  /\ wanted \in Modes

(* Every completed packet is handled before the next byte is read, though  *)
(* SerialUtil has room for one packet only.                                *)
NoPacketSkipped == pc = "tick" => ~unhandled

(* The mode shown is the one last ordered, however packets, timeouts, a    *)
(* stalled web server and repeated handling of a held packet interleave;   *)
(* the exceptions are the timeouts, and those only after real silence.     *)
ModeFollowsOrders ==
  pc # "handle" =>
    \/ component = wanted
    \/ component = "AMBIENT" /\ lull > AmbientTimeout
    \/ component = None /\ wanted = "STROBE" /\ lull > StrobeTimeout

(* From the end of setup() on, the program's brightness, the one FastLED   *)
(* uses and the one last ordered are the same; a brightness packet without *)
(* content changes none of them.                                           *)
BrightnessFollowsOrders ==
  pc \notin { "setup", "handle" } =>
    fastLedBrightness = brightness /\ brightness = ordered

(* With no component the picture is frozen; what is frozen is always the   *)
(* last flash of the strobe, never another mode's picture.                 *)
OnlyStrobeFreezes == component = None => painted = "STROBE"

(* When no packet is held, because the stream broke off inside a frame,    *)
(* the controller returns to ambient mode and stays there.                 *)
SilenceEndsInAmbient ==
  <>[](held = NoPacket /\ pc # "setup") => <>[](component = "AMBIENT")

(***************************************************************************)
(* What the comments of main.cpp say of the timeouts.                      *)
(***************************************************************************)

(* main.cpp:67 and README.md:33, "disable strobe after 5s if no follow up  *)
(* packet is sent".                                                        *)
StrobeEndsInSilence ==
  pc = "animate" /\ component = "STROBE" => silence <= StrobeTimeout

=============================================================================
