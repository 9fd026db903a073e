----------------------------- MODULE MCLz4Frame -----------------------------
(* Frames, read and written: in a behaviour one side runs, in one of its   *)
(* settings, and the others rest.  The settings of the decoder differ in   *)
(* the caller's buffers and the frames, those of the encoder in the number *)
(* of frames that a context writes.                                        *)
EXTENDS MCLz4FrameDecoder

VARIABLES
  part,
  \* the encoder
  e, lz, m, call, given, done, block, written, at, frames, outcome

Parts == { "mixed", "stable", "reset", "pieces", "again" }

Stable ==
  INSTANCE Lz4FrameDecoder WITH
    DstSize <- 10, MaxGiven <- 3, MaxRoom <- 4, Streams <- StableStreams,
    StableDst <- TRUE

Restarted ==
  INSTANCE Lz4FrameDecoder WITH
    Streams <- ResetStreams, DictSize <- 0, MaxResets <- 1

Writing(linked, autoFlush, hc, checks, size, id) ==
  [linked |-> linked, autoFlush |-> autoFlush, hc |-> hc, blockChecksum |-> checks,
   contentChecksum |-> checks, contentSize |-> size, blockSizeID |-> id]

(* Blocks of three bytes, one text.                                        *)
Pieces ==
  INSTANCE Lz4FrameEncoder WITH
    KB4 <- 2, Tiny <- 2, DictSizes <- { 2 }, MaxText <- 7, MaxPiece <- 4, MaxFrames <- 1,
    LargestTmpBuff <- 9,
    Prefs <- { Writing(TRUE, FALSE, FALSE, FALSE, 0, 4), Writing(TRUE, FALSE, TRUE, TRUE, 7, 4),
               Writing(TRUE, TRUE, FALSE, TRUE, 0, 5), Writing(TRUE, TRUE, TRUE, FALSE, 0, 4),
               Writing(FALSE, FALSE, FALSE, TRUE, 0, 0), Writing(FALSE, FALSE, TRUE, FALSE, 0, 4) }

(* Blocks of two bytes, two texts.                                         *)
Again ==
  INSTANCE Lz4FrameEncoder WITH
    KB64 <- 2, KB4 <- 1, Tiny <- 2, DictSizes <- { 0, 3 }, MaxText <- 3, MaxPiece <- 2,
    MaxFrames <- 2, LargestTmpBuff <- 6,
    Prefs <- { Writing(TRUE, FALSE, FALSE, FALSE, 3, 0), Writing(TRUE, TRUE, TRUE, FALSE, 0, 4),
               Writing(FALSE, TRUE, TRUE, TRUE, 2, 5), Writing(FALSE, FALSE, FALSE, TRUE, 3, 4) }

ASSUME EncodersFit == Pieces!EncoderSizes /\ Again!EncoderSizes
ASSUME ResetsAllowed == GivenUpUnsized /\ Stable!GivenUpUnsized /\ Restarted!GivenUpUnsized

encoderVars == << e, lz, m, call, given, done, block, written, at, frames, outcome >>
frameVars   == << part, frameDecoderVars, encoderVars >>

(* A decoder or an encoder that rests has nothing to do.                   *)
FrameInit ==
  /\ part \in Parts
  /\ CASE part = "stable" -> Stable!FrameDecoderInit
       [] part = "reset"  -> Restarted!FrameDecoderInit
       [] part = "mixed"  -> FrameDecoderInit
       [] OTHER -> FrameDecoderInit /\ stream = CHOOSE s \in Streams : TRUE
  /\ IF part = "again" THEN Again!EncoderInit ELSE Pieces!EncoderInit

FrameNext ==
  /\ UNCHANGED part
  /\ \/ /\ \/ part = "mixed" /\ (FrameDecoderNext \/ AllDecoded)
           \/ part = "stable" /\ (Stable!FrameDecoderNext \/ Stable!AllDecoded)
           \/ part = "reset" /\ (Restarted!FrameDecoderNext \/ Restarted!AllDecoded)
        /\ UNCHANGED encoderVars
     \/ /\ \/ part = "pieces" /\ (Pieces!EncoderNext \/ Pieces!AllWritten)
           \/ part = "again" /\ (Again!EncoderNext \/ Again!AllWritten)
        /\ UNCHANGED frameDecoderVars

FrameSpec == FrameInit /\ [][FrameNext]_frameVars

-----------------------------------------------------------------------------
(* What either side keeps between the calls lies in its own buffers.       *)
KeptInBuffers ==
  /\ part = "mixed" => InsideOwnBuffers
  /\ part = "stable" => Stable!InsideOwnBuffers
  /\ part = "pieces" => Pieces!InsideTmpBuff
  /\ part = "again" => Again!InsideTmpBuff

(* A frame that is written in pieces holds the whole text, in blocks that  *)
(* refer to what the decoder has.                                          *)
FrameHoldsText ==
  /\ part = "pieces" => Pieces!BlocksFollow /\ Pieces!EndsWell
  /\ part = "again" => Again!BlocksFollow /\ Again!EndsWell

(* The room that LZ4F_compressBound and LZ4F_compressFrameBound promise is *)
(* enough for every call.                                                  *)
BoundSuffices == Pieces!CapacitySuffices
=============================================================================
