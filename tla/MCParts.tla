------------------------------ MODULE MCParts ------------------------------
(* Small components, each by itself: in a behaviour one of them runs and   *)
(* the others stay as they begin.  The parser meets every byte stream of a *)
(* three-valued byte: lengths 0 to 2 are legal, 3 and 4 too long, 5 to 8   *)
(* negative as shorts; type 1 is legal, 0 and 2 are not.                   *)
EXTENDS SerialParser

MCMagic == << 2, 1 >>

VARIABLES
  part,
  \* the sound-to-light component
  wave, overflow, totalNodesReplaced, flashFade, flashMomentum, forceStrobeActive,
  strobeState, strobeAge, front,
  \* the raw colours
  rawLedLeft, rawLedRight, picture, reads,
  \* the flags of the S2L helper
  doForceHit, doForceStrobe, audioPc, flags, asks, covered, answered, hits,
  \* the web page
  slide, brightness, sinceSend, socket, unsent, network, ledBrightness

Parts == { "parser", "wave", "flash", "strip", "colors", "flags", "page" }

(* The wave on a short strip, with pauses of a second.                     *)
Wave ==
  INSTANCE S2LWave WITH
    OnTime <- 1, OffTime <- 2, NumLed <- 2, Resolution <- 3, NodeTicks <- 2,
    Deltas <- { 0, 1, 5, 24 }, Levels <- { 0, 3, 5 }, MaxLum <- 6, Fall <- 1,
    FlashStart <- 6, FlashPull <- 1, WithFlags <- FALSE

(* Its flash and strobe, forced by packets.                                *)
Flash ==
  INSTANCE S2LWave WITH
    OnTime <- 1, OffTime <- 3, NumLed <- 2, Resolution <- 2, NodeTicks <- 2,
    Deltas <- { 0, 1, 2 }, Levels <- { 0 }, MaxLum <- 1, Fall <- 1,
    FlashStart <- 8, FlashPull <- 1, WithFlags <- TRUE

(* The real strip, in the dark.                                            *)
Strip ==
  INSTANCE S2LWave WITH
    OnTime <- 1, OffTime <- 2, NumLed <- 121, Resolution <- 3, NodeTicks <- 4,
    Deltas <- { 3 }, Levels <- { 0 }, MaxLum <- 255, Fall <- 2,
    FlashStart <- 255, FlashPull <- 1700, WithFlags <- FALSE

Colors ==
  INSTANCE RawColors WITH
    NumLed <- 2, MaxPicture <- 3,
    Color <- { << 255, 0, 0 >>, << 0, 255, 0 >>, << 0, 0, 0 >>, << 9, 8, 7 >> }

ASSUME PartSizes ==
  /\ Wave!WaveSizes /\ Flash!WaveSizes /\ Strip!WaveSizes
  /\ Colors!PictureSizes

HitFlags == INSTANCE S2LFlags WITH MaxAsks <- 5

Page ==
  INSTANCE WebClient WITH
    MaxLevel <- 2, PageLevel <- 1, MinGap <- 1, PingGap <- 3, MaxClicks <- 2, MaxUnderWay <- 2

waveVars  == << wave, overflow, totalNodesReplaced, flashFade, flashMomentum,
                forceStrobeActive, strobeState, strobeAge, front >>
colorVars == << rawLedLeft, rawLedRight, picture, reads >>
flagVars  == << doForceHit, doForceStrobe, audioPc, flags, asks, covered, answered, hits >>
pageVars  == << slide, brightness, sinceSend, socket, unsent, network, ledBrightness >>
partsVars == << parserVars, part, waveVars, colorVars, flagVars, pageVars >>

PartsInit ==
  /\ part \in Parts
  /\ ParserInit
  /\ IF part = "strip" THEN Strip!WaveInit
     ELSE IF part = "flash" THEN Flash!WaveInit
     ELSE Wave!WaveInit
  /\ Colors!ColorInit
  /\ HitFlags!FlagsInit
  /\ Page!ClientInit
  /\ part # "page" => ledBrightness = 0

PartsNext ==
  /\ UNCHANGED part
  /\ \/ /\ part = "parser" /\ ParserNext
        /\ UNCHANGED << waveVars, colorVars, flagVars, pageVars >>
     \/ /\ \/ part = "wave" /\ Wave!WaveNext
           \/ part = "flash" /\ Flash!WaveNext
           \/ part = "strip" /\ Strip!WaveNext
        /\ UNCHANGED << parserVars, colorVars, flagVars, pageVars >>
     \/ /\ part = "colors" /\ Colors!ColorNext
        /\ UNCHANGED << parserVars, waveVars, flagVars, pageVars >>
     \/ /\ part = "flags" /\ HitFlags!FlagsNext
        /\ UNCHANGED << parserVars, waveVars, colorVars, pageVars >>
     \/ /\ part = "page" /\ Page!ClientNext
        /\ UNCHANGED << parserVars, waveVars, colorVars, flagVars >>

PartsSpec ==
  /\ PartsInit /\ [][PartsNext]_partsVars
  /\ part = "flash" => WF_waveVars(Flash!Passes)
  /\ part = "page" => Page!ClientFairness

-----------------------------------------------------------------------------
(* A loud sound draws a line without gaps on the strip.                    *)
NoGaps == part = "wave" => Wave!NoGaps

(* A flash that is not renewed ends, and a forced strobe goes on flashing. *)
FlashesGoOn == part = "flash" => Flash!FlashEnds /\ Flash!StrobeFlashes

(* The luminance of an LED is the mean of nodes that exist, and drawing a  *)
(* picture reads no byte behind the content of its packet.                 *)
DrawnFromData ==
  /\ part = "strip" => Strip!MeansInWave
  /\ Colors!ReadsInContent

(* Every picture arrives in its colours, in either layout, and a single    *)
(* colour fills the strip.                                                 *)
PicturesDrawn == Colors!PictureArrives /\ Colors!OneColorFills

(* No hit is lost between API thread and audio thread, and none invented.  *)
HitsAsAsked == HitFlags!HitNotForgotten /\ HitFlags!HitsAskedFor

(* Left alone, the page and the server agree on the brightness for good,   *)
(* and the slider's messages never queue up in the browser.                *)
SliderPrevails == part = "page" => Page!SliderPrevails /\ []Page!SliderNeverQueues
=============================================================================
