----------------------------- MODULE MCLz4Block -----------------------------
(* The parts of the LZ4 block format: in a behaviour one of them runs and  *)
(* the others rest.  The stream of blocks is over two letters.             *)
EXTENDS Lz4Stream

PairHash(s) == (s[1] + 2 * s[2]) % 3

SomeBlocks == { << 0, 1, 0, 1, 0, 1 >>, << 0, 0, 1, 0, 0 >>, << 1, 1, 0, 1, 0 >>, << 1, 0 >>,
                << 0, 0, 0, 1, 1, 0, 1 >> }

SomeDictionaries == { << 0, 1, 0, 0, 1, 0, 1 >>, << 1 >> }

VARIABLES
  part,
  \* the decoder of a block
  call, decoderPc, decoderIp, decoderOp, code, touched,
  \* the copy of a match
  way, offset, length, room, output, todo,
  \* the compressor's output
  srcSize, capacity, destSize, outputPc, outputAnchor, outputIp, outputOp, token,
  lastSequence, reached,
  \* of the high compression, besides
  limit, ml, optr,
  \* its choice of matches
  inputSize, matchesPc, matchesAnchor, one, two, zero, encoded,
  \* the decoder's ring buffer
  ring, prefixSize, prefixEnd, extDictSize, externalDict, text, ringPc, dest, size, k

Parts == { "stream", "safe", "fast", "copy", "short", "long", "highShort", "highLong",
           "matches", "ring" }

(* Calls of the decoder on small buffers, with and without bytes that were *)
(* decoded before.                                                         *)
NoWindow == [dict |-> "noDict", prefixSize |-> 0, dictSize |-> 0]
Windows ==
  { NoWindow, [NoWindow EXCEPT !.prefixSize = 10],
    [NoWindow EXCEPT !.dict = "withPrefix64k", !.prefixSize = 65536],
    [NoWindow EXCEPT !.dict = "usingExtDict", !.dictSize = 12],
    [dict |-> "usingExtDict", prefixSize |-> 6, dictSize |-> 65536] }
SmallCalls(srcSizes, outputSizes) ==
  { [srcSize |-> i, outputSize |-> o, partialDecoding |-> p,
     dict |-> w.dict, prefixSize |-> w.prefixSize, dictSize |-> w.dictSize] :
      i \in srcSizes, o \in outputSizes, p \in BOOLEAN, w \in Windows }

Safe ==
  INSTANCE Lz4Decoder WITH
    pc <- decoderPc, ip <- decoderIp, op <- decoderOp, LZ4_FAST_DEC_LOOP <- FALSE,
    Calls <- SmallCalls({ 0, 1, 9, 30 }, { 0, 13, 44 }),
    Codes <- { 0, 14, 15 }, Extra <- { 0, 9, 255 }, Offsets <- { 0, 7, 11, 65535 }

Fast ==
  INSTANCE Lz4Decoder WITH
    pc <- decoderPc, ip <- decoderIp, op <- decoderOp, LZ4_FAST_DEC_LOOP <- TRUE,
    Calls <- SmallCalls({ 50 }, { 90 }),
    Codes <- { 4, 15 }, Extra <- { 0, 255 }, Offsets <- { 7, 30 }

Copy ==
  INSTANCE Lz4Copy WITH
    mem <- output,
    Offsets <- 0 .. 9 \cup { 11, 15, 16, 17, 31, 40 },
    Lengths <- { 4, 5, 7, 8, 9, 24, 33, 40 } \cup 15 .. 19,
    Rooms   <- 5 .. 8 \cup 11 .. 14 \cup { 64 }

(* Inputs and capacities at the ends of the scale.                         *)
Short ==
  INSTANCE Lz4Output WITH
    pc <- outputPc, anchor <- outputAnchor, ip <- outputIp, op <- outputOp,
    SrcSizes <- { 0, 1, 12, 13, 20, 33 },
    Capacities <- 0 .. 2 \cup { 5 } \cup 12 .. 29 \cup { 49, 50 },
    LitLengths <- { 0, 1, 2, 7, 20 } \cup 14 .. 17,
    MatchCodes <- { 0, 1, 3, 14, 15 }

Long ==
  INSTANCE Lz4Output WITH
    pc <- outputPc, anchor <- outputAnchor, ip <- outputIp, op <- outputOp,
    SrcSizes <- { 290, 560, 900, 1100 },
    Capacities <- 11 .. 17 \cup { 30, 38, 39 } \cup 282 .. 286
                    \cup { 292, 293, 306, 307, 319, 578, 579, 600, 918, 1119, 1120 },
    LitLengths <- { 0, 15, 17, 269, 270, 271, 277 },
    MatchCodes <- { 270, 779, 780, 1035 }

HighShort ==
  INSTANCE Lz4HighOutput WITH
    pc <- outputPc, anchor <- outputAnchor, ip <- outputIp, op <- outputOp,
    SrcSizes <- { 0, 1, 12, 13, 20, 33 },
    Capacities <- 0 .. 2 \cup { 5 } \cup 12 .. 29 \cup { 49, 50 },
    LitLengths <- { 0, 1, 2, 7, 20 } \cup 14 .. 17,
    MatchLengths <- { 4, 5, 7, 18, 19 }

HighLong ==
  INSTANCE Lz4HighOutput WITH
    pc <- outputPc, anchor <- outputAnchor, ip <- outputIp, op <- outputOp,
    SrcSizes <- { 290, 560, 900, 1100 },
    Capacities <- 11 .. 17 \cup { 30, 38, 39 } \cup 282 .. 286
                    \cup { 292, 293, 306, 307, 319, 578, 579, 600, 918, 1119, 1120 },
    LitLengths <- { 0, 15, 17, 269, 270, 271, 277 },
    MatchLengths <- { 274, 783, 784, 1039 }

(* Matches of up to six bytes instead of 18 have their length in the token.*)
Choice ==
  INSTANCE Lz4HighMatches WITH
    pc <- matchesPc, anchor <- matchesAnchor,
    InputSizes <- { 12, 26 }, Distances <- { 1 }, OptimalML <- 6

(* A window of 32 bytes; the margins are those of the code.                *)
Ring ==
  INSTANCE Lz4DecodeStream WITH
    pc <- ringPc, KB64 <- 32, MaxBlock <- 50, LZ4_FAST_DEC_LOOP <- FALSE,
    Blocks <- { 33, 47, 50 }, LitLengths <- { 0, 3, 17 }, MatchLengths <- { 4, 21 },
    MaxText <- 180

decoderVars == << call, decoderPc, decoderIp, decoderOp, code, touched >>
copyVars    == << way, offset, length, room, output, todo >>
outputVars  == << srcSize, capacity, destSize, outputPc, outputAnchor, outputIp, outputOp,
                  token, lastSequence, reached, limit, ml, optr >>
matchesVars == << inputSize, matchesPc, matchesAnchor, one, two, zero, encoded >>
ringVars    == << ring, prefixSize, prefixEnd, extDictSize, externalDict, text, ringPc,
                  dest, size, k >>
blockVars   == << part, streamVars, decoderVars, copyVars, outputVars, matchesVars,
                  ringVars >>

(* What rests has any value.                                               *)
BlockInit ==
  /\ part \in Parts
  /\ StreamInit
  /\ CASE part = "safe" -> Safe!DecoderInit
       [] part = "fast" -> Fast!DecoderInit
       [] OTHER         -> /\ call = NoWindow /\ decoderPc = "rests" /\ decoderIp = 0
                           /\ decoderOp = 0 /\ code = 0 /\ touched = {}
  /\ IF part = "copy" THEN Copy!CopyInit
     ELSE /\ way = "none" /\ offset = 1 /\ length = 4 /\ room = 5
          /\ output = << >> /\ todo = << >>
  /\ CASE part = "short"     -> Short!OutputInit
       [] part = "long"      -> Long!OutputInit
       [] part = "highShort" -> HighShort!HighInit
       [] part = "highLong"  -> HighLong!HighInit
       [] OTHER -> /\ srcSize = 0 /\ capacity = 0 /\ outputPc = "rests" /\ outputAnchor = 0
                   /\ outputIp = 0 /\ outputOp = 0 /\ lastSequence = {} /\ reached = 0
  /\ part \notin { "short", "long" } => destSize = FALSE /\ token = 0
  /\ part \notin { "highShort", "highLong" } => limit = "none" /\ ml = 0 /\ optr = 0
  /\ IF part = "matches" THEN Choice!MatchesInit
     ELSE /\ inputSize = 0 /\ matchesPc = "rests" /\ matchesAnchor = 0
          /\ one = {} /\ two = {} /\ zero = {} /\ encoded = << >>
  /\ Ring!DecodeStreamInit

BlockNext ==
  /\ UNCHANGED part
  /\ \/ /\ part = "stream" /\ StreamNext
        /\ UNCHANGED << decoderVars, copyVars, outputVars, matchesVars, ringVars >>
     \/ /\ \/ part = "safe" /\ Safe!DecoderNext
           \/ part = "fast" /\ Fast!DecoderNext
        /\ UNCHANGED << streamVars, copyVars, outputVars, matchesVars, ringVars >>
     \/ /\ part = "copy" /\ Copy!CopyNext
        /\ UNCHANGED << streamVars, decoderVars, outputVars, matchesVars, ringVars >>
     \/ /\ \/ part = "short" /\ Short!OutputNext
           \/ part = "long" /\ Long!OutputNext
        /\ UNCHANGED << streamVars, decoderVars, copyVars, matchesVars, ringVars,
                        limit, ml, optr >>
     \/ /\ \/ part = "highShort" /\ HighShort!HighNext
           \/ part = "highLong" /\ HighLong!HighNext
        /\ UNCHANGED << streamVars, decoderVars, copyVars, matchesVars, ringVars,
                        destSize, token >>
     \/ /\ part = "matches" /\ Choice!MatchesNext
        /\ UNCHANGED << streamVars, decoderVars, copyVars, outputVars, ringVars >>
     \/ /\ part = "ring" /\ Ring!DecodeStreamNext
        /\ UNCHANGED << streamVars, decoderVars, copyVars, outputVars, matchesVars >>

BlockSpec == BlockInit /\ [][BlockNext]_blockVars

-----------------------------------------------------------------------------
(* No part touches memory outside the buffers it was given: the decoder    *)
(* for any block, the copies of matches, the compressor at any capacity    *)
(* and when it compares a candidate for a match.                           *)
InsideBuffers ==
  /\ part = "safe" => Safe!InsideBuffers
  /\ part = "fast" => Fast!InsideBuffers
  /\ part = "copy" => Copy!NoOverlap /\ Copy!OnlyTheOutput
  /\ part \in { "short", "long" } => Short!InsideCapacity
  /\ part \in { "highShort", "highLong" } => HighShort!HighInsideCapacity
  /\ part = "stream" => ComparedInside

(* The decoder decodes what it was asked for: every match as the format    *)
(* says, and every sequence of the block.                                  *)
DecodedWhole ==
  /\ part = "safe" => Safe!NothingLeftOut
  /\ part = "fast" => Fast!NothingLeftOut
  /\ part = "copy" => Copy!CopiedPeriodically

(* The compressors' blocks are accepted by the decoder and hold the whole  *)
(* input, or as much of it as fits; with high compression they are made of *)
(* parts of matches that were found, one behind the other.                 *)
CompressedWhole ==
  /\ part \in { "short", "long" } => Short!DecoderAccepts /\ Short!FilledUp
  /\ part \in { "highShort", "highLong" } =>
       HighShort!HighAccepted /\ HighShort!HighFilledUp
  /\ part = "matches" => Choice!SequencesLegal

(* The bytes that later blocks refer to stay in a ring of the given size.  *)
RingBufferSuffices == part = "ring" => Ring!RingBufferSuffices
=============================================================================
