------------------------------ MODULE S2LWave ------------------------------
(***************************************************************************)
(* S2LComponent: a wave of luminances that runs along the strip.  Nodes    *)
(* enter at 0; start() is called with every sound packet, loop() once in   *)
(* every pass of the main loop.  Time is counted in ticks, NodeTicks of    *)
(* which move the wave by one node, so overflow is a whole number here.    *)
(* Luminances and the flash are in abstract units; the hue is left out.    *)
(***************************************************************************)
EXTENDS Strobe, LedStrip

CONSTANTS
  Resolution,  \* S2L_RESOLUTION, nodes per LED
  NodeTicks,   \* ticks per node
  Deltas,      \* ticks between two calls, clipped by the code at one second
  Levels,      \* luminance a loud packet writes (203, 228, 254), 0 for quiet
  MaxLum,      \* 255
  Fall,        \* how much faster the tail falls at every node (2.5)
  FlashStart,  \* 255
  FlashPull,   \* acceleration of the flash's decay (1700)
  WithFlags    \* whether packets may carry FORCE_HIT and FORCE_STROBE

NumNodes == NumLed * Resolution
Nodes    == 0 .. NumNodes - 1

(* Sizes the component is made for: a strip, more than two nodes, and      *)
(* luminances that fit a byte.                                             *)
WaveSizes ==
  /\ NumLed \in Nat /\ Resolution \in Nat \ {0} /\ NumNodes > 2 /\ Resolution <= NumNodes
  /\ NodeTicks \in Nat \ {0} /\ Deltas \subseteq Nat
  /\ MaxLum \in Nat /\ Levels \subseteq 0 .. MaxLum /\ Fall \in Nat
  /\ FlashStart \in Nat /\ FlashPull \in Nat

VARIABLES
  wave,                \* [Nodes -> luminance]
  overflow,            \* the part of a node the wave has moved beyond
  totalNodesReplaced,  \* nodes filled lazily since the last packet, saturating
  flashFade,
  flashMomentum,
  forceStrobeActive,
  front                \* history: nodes that entered since the sound became loud

flashVars == << flashFade, flashMomentum >>
waveVars  == << wave, overflow, totalNodesReplaced, flashVars, forceStrobeActive,
                strobeVars, front >>

Least(a, b)    == IF a < b THEN a ELSE b
Greatest(a, b) == IF a > b THEN a ELSE b
Constrain(v, low, high) == Greatest(low, Least(high, v))

Dark == [n \in Nodes |-> 0]

WaveInit ==
  /\ wave = Dark
  /\ overflow = 0 /\ totalNodesReplaced = 0
  /\ flashFade = 0 /\ flashMomentum = 0
  /\ forceStrobeActive = FALSE
  /\ StrobeInit
  /\ front = 0

-----------------------------------------------------------------------------
(* continueWave: a move by more than half the wave clears it.              *)
Moved(d)  == (d + overflow) \div NodeTicks
Clears(d) == Moved(d) > NumNodes \div 2

Steps(d) == IF Clears(d) THEN 0 ELSE Moved(d)

Shifted(d) ==
  IF Clears(d) THEN Dark
  ELSE [n \in Nodes |-> IF n >= Moved(d) THEN wave[n - Moved(d)] ELSE wave[n]]

Momentum(w, k) == Least(0, w[k] - w[k + 1])

(* The k new nodes fall away from node k, faster with every node ...       *)
Falling(w, k) ==
  LET lum[n \in 0 .. k] ==   \* n nodes before node k
        IF n = 0 THEN w[k]
        ELSE Constrain(lum[n - 1] + Momentum(w, k) - n * Fall, 0, MaxLum)
  IN  lum

Fallen(w, k) == [n \in Nodes |-> IF n < k THEN Falling(w, k)[k - n] ELSE w[n]]

(* ... or, filled lazily, repeat it.                                       *)
Repeated(w, k) == [n \in Nodes |-> IF n < k THEN w[k] ELSE w[n]]

MoveOverflow(d) == overflow' = IF Clears(d) THEN 0 ELSE (d + overflow) % NodeTicks

(* The flash fades with growing speed.                                     *)
ContinueFlash(fade, momentum, d) ==
  IF fade > 0
    THEN /\ flashMomentum' = momentum - FlashPull * d
         /\ flashFade' = Greatest(0, fade + flashMomentum' * d)
    ELSE flashMomentum' = 0 /\ flashFade' = fade

Strobes(d) == IF forceStrobeActive' THEN StrobeLoop(d) ELSE StrobeRests(d)

-----------------------------------------------------------------------------
(* Mutant: nodes that entered in this very call are forgotten.             *)
OverwrittenLazyOnly(d) == Constrain(Least(totalNodesReplaced, NumNodes),
                                    Resolution, NumNodes)

(* What a packet makes bright: the nodes that are new since the last one.  *)
Overwritten(d) == Constrain(Steps(d) + Least(totalNodesReplaced, NumNodes),
                            Resolution, NumNodes)

(* start() with a sound packet: its loudness and its two flags.            *)
Start(d, loud, hit, strobe) ==
  /\ LET filled == Fallen(Shifted(d), Steps(d))
     IN  wave' = [n \in Nodes |-> IF loud > 0 /\ n < Overwritten(d)
                                    THEN Greatest(filled[n], loud) ELSE filled[n]]
  /\ MoveOverflow(d)
  /\ totalNodesReplaced' = 0
  /\ ContinueFlash(IF hit THEN FlashStart ELSE flashFade,
                   IF hit THEN 0 ELSE flashMomentum, d)
  /\ forceStrobeActive' = strobe
  /\ Strobes(d)
  /\ front' = IF loud = 0 THEN 0
              ELSE Greatest(Constrain(totalNodesReplaced + Steps(d), Resolution, NumNodes),
                            IF front = 0 \/ Clears(d) THEN 0
                            ELSE Least(front + Steps(d), NumNodes))

(* loop(): the nodes that enter are only stand-ins until the next packet.  *)
Loop(d) ==
  /\ wave' = Repeated(Shifted(d), Steps(d))
  /\ MoveOverflow(d)
  /\ totalNodesReplaced' = Least(totalNodesReplaced + Steps(d), NumNodes)
  /\ ContinueFlash(flashFade, flashMomentum, d)
  /\ UNCHANGED forceStrobeActive
  /\ Strobes(d)
  /\ front' = IF front = 0 \/ Clears(d) THEN 0 ELSE Least(front + Steps(d), NumNodes)

Flags == IF WithFlags THEN BOOLEAN ELSE { FALSE }

WaveNext ==
  \E d \in Deltas :
    \/ \E loud \in Levels, hit \in Flags, strobe \in Flags : Start(d, loud, hit, strobe)
    \/ Loop(d)

WaveSpec == WaveInit /\ [][WaveNext]_waveVars

(* The main loop goes on, and time passes while it does.                   *)
Passes == \E d \in Deltas \ {0} : Loop(d)

FairWaveSpec == WaveSpec /\ WF_waveVars(Passes)

-----------------------------------------------------------------------------
(* waveToRgb: LED i shows the mean of these nodes.  The position is        *)
(* (i / NumLed) ^ 2 + 0.02 of the wave.                                    *)
(* Mutant: the range is not clipped.                                       *)
NodesOfLedUnclipped(i) ==
  LET pos == ((100 * i * i + 2 * NumLed * NumLed) * NumNodes) \div (100 * NumLed * NumLed)
  IN  pos .. pos + Resolution

NodesOfLed(i) ==
  LET pos == ((100 * i * i + 2 * NumLed * NumLed) * NumNodes) \div (100 * NumLed * NumLed)
  IN  Greatest(0, pos) .. Least(NumNodes, pos + Resolution)

(***************************************************************************)
(* Properties.                                                             *)
(***************************************************************************)
(* A sound that stays loud draws an unbroken line: however calls of        *)
(* loop() and start() share the movement, no node in it is left dark by    *)
(* the lazy fill or by the falling tail.                                   *)
FaintestLoud ==
  CHOOSE l \in Levels \ {0} : \A m \in Levels \ {0} : l <= m

NoGaps == \A n \in Nodes : n < front => wave[n] >= FaintestLoud

(* The means of waveToRgb are taken over nodes of the wave only, though    *)
(* the range is closed and clipped at one past the last node.              *)
MeansInWave == \A i \in Leds : NodesOfLed(i) \subseteq DOMAIN wave

(* A flash ends once no more hits are forced.                              *)
FlashEnds == <>[][flashFade' <= flashFade]_flashFade => <>[](flashFade = 0)

(* A strobe forced for good goes on flashing.                              *)
StrobeFlashes ==
  <>[]forceStrobeActive => []<>strobeState /\ []<>~strobeState
=============================================================================
