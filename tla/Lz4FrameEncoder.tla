-------------------------- MODULE Lz4FrameEncoder ---------------------------
(***************************************************************************)
(* Frames written with LZ4F_compressBegin, LZ4F_compressUpdate, LZ4F_flush *)
(* and LZ4F_compressEnd, or by LZ4F_compressFrame in one call.  The text   *)
(* arrives in pieces of any size, in memory that the caller keeps until    *)
(* the end of the frame or overwrites after the call; the encoder cuts it  *)
(* into blocks and keeps what later matches may refer to.                  *)
(*                                                                         *)
(* A block stands for its bytes and those a match in it may be taken from, *)
(* its history.  A byte of a dictionary is its distance to the dictionary's*)
(* end, 0 or negative, a byte of a text its number.  How matches are found *)
(* in a history is in module Lz4Stream.                                    *)
(***************************************************************************)
EXTENDS Integers, Sequences

CONSTANTS
  KB64, KB4, Tiny,               \* 64 KB, 4 KB, the shortest useful dictionary: 4 bytes
  BHSize, BFSize,                \* bytes of a block's header, of a checksum
  minFHSize, maxFHSize, SizeField,
  Prefs, DictSizes,              \* preferences, sizes of dictionaries (0: none)
  MaxText, MaxPiece,             \* the longest text, the largest piece in a call
  LargestTmpBuff,                \* that any of the preferences asks for
  MaxFrames

VARIABLES
  e,        \* LZ4F_cctx
  lz,       \* the LZ4_stream_t or LZ4_streamHC_t in it: where its history lies
  m,        \* memory: tmpBuff, the caller's, the dictionary
  call,     \* the call that is running
  given,    \* how much of the text has been handed over
  done,     \* how much of it is in blocks
  block,    \* the last block
  written,  \* bytes written by the call, at most
  at,       \* where the call is
  frames, outcome

encoderVars == << e, lz, m, call, given, done, block, written, at, frames, outcome >>

NULL    == -1
Unknown == -100
LZ4F_max64KB == 4

Smaller(a, b) == IF a < b THEN a ELSE b

(* The block sizes: 64 KB, 256 KB, 1 MB, 4 MB.                             *)
LZ4F_getBlockSize(id) ==
  KB64 * << 1, 4, 16, 64 >>[(IF id = 0 THEN LZ4F_max64KB ELSE id) - LZ4F_max64KB + 1]

(* Memory: tmpBuff, a place for pieces that are overwritten, one for those *)
(* that stay, and one for the dictionary.                                  *)
TMPBUFF == 0
PASSING == TMPBUFF + LargestTmpBuff + 1
STAYING == PASSING + MaxPiece + 1
DICT    == STAYING + MaxText + 1
DICTEND == DICT + KB64
Addresses == 0 .. DICTEND

Text(from, to)    == [k \in 1 .. to - from |-> 100 * frames + from + k]
Segment(from, n)  == [k \in 1 .. n |-> m[from + k - 1]]
Written(to, s)    ==
  IF s = << >> THEN m
  ELSE [a \in Addresses |-> IF a - to \in 0 .. Len(s) - 1 THEN s[a - to + 1] ELSE m[a]]
Forgotten(from, n) == Written(from, [k \in 1 .. n |-> Unknown])

-----------------------------------------------------------------------------
(* The contexts of both compressors: one or two segments of history, and   *)
(* the dictionary of another context.  The fast one has a single segment.  *)
NoHistory == [from |-> NULL, size |-> 0, extFrom |-> NULL, extSize |-> 0, attached |-> FALSE]

End(z)       == z.from + z.size
Dictionary   == Segment(DICTEND - e.cdict, e.cdict)
Overlaps(src, n, from, size) == src + n > from /\ src < from + size

WithoutTiny(z, src) ==
  IF z.size \in 1 .. Tiny - 1 /\ End(z) # src THEN [z EXCEPT !.from = src, !.size = 0] ELSE z

WithoutOverwritten(z, src, n) ==
  LET left == Smaller(End(z) - (src + n), KB64)
      size == IF left < Tiny THEN 0 ELSE left
  IN  IF src + n > z.from /\ src + n < End(z)
      THEN [z EXCEPT !.from = End(z) - size, !.size = size] ELSE z

(* A dictionary is only of use for the first block.                        *)
LZ4_compress_fast_continue(z, src, n) ==
  LET s == WithoutOverwritten(WithoutTiny(z, src), src, n)
  IN  IF End(s) = src
      THEN [lz |-> [s EXCEPT !.size = @ + n], history |-> Segment(s.from, s.size)]
      ELSE [lz |-> [NoHistory EXCEPT !.from = src, !.size = n],
            history |-> IF s.attached THEN Dictionary ELSE Segment(s.from, s.size)]

LZ4HC_setExternalDict(z, src) ==
  [from |-> src, size |-> 0, extFrom |-> z.from, extSize |-> z.size, attached |-> FALSE]

WithoutOverwrittenExt(z, src, n) ==
  LET left == z.extFrom + z.extSize - Smaller(src + n, z.extFrom + z.extSize)
      size == IF left < Tiny THEN 0 ELSE left
  IN  IF Overlaps(src, n, z.extFrom, z.extSize)
      THEN [z EXCEPT !.extFrom = @ + z.extSize - size, !.extSize = size] ELSE z

(* An attached dictionary is in front of all that was seen, until 64 KB    *)
(* have been seen.  A large first block has it as its external segment.    *)
LZ4HC_compress_generic(z, n) ==
  LET position == z.size + z.extSize
      s == IF ~z.attached \/ position >= KB64 THEN [z EXCEPT !.attached = FALSE]
           ELSE IF position = 0 /\ n > KB4
           THEN [z EXCEPT !.extFrom = DICTEND - e.cdict, !.extSize = e.cdict, !.attached = FALSE]
           ELSE z
  IN  [lz |-> [s EXCEPT !.size = @ + n],
       history |-> (IF s.attached THEN Dictionary ELSE << >>)
                   \o Segment(s.extFrom, s.extSize) \o Segment(s.from, s.size)]

LZ4_compressHC_continue(z, src, n) ==
  LET begun == IF z.from = NULL THEN [z EXCEPT !.from = src] ELSE z
      s     == IF End(begun) = src THEN begun ELSE LZ4HC_setExternalDict(begun, src)
  IN  LZ4HC_compress_generic(WithoutOverwrittenExt(s, src, n), n)

-----------------------------------------------------------------------------
(* Either compressor on a context for a frame, or for a block alone.       *)
LZ4F_initStream(z, prefs, cdict) ==
  IF prefs.hc \/ cdict > 0 \/ prefs.linked
  THEN [NoHistory EXCEPT !.attached = cdict > 0]
  ELSE [z EXCEPT !.attached = FALSE]

OneShot(n) == [lz |-> [NoHistory EXCEPT !.size = n], history |-> << >>]

Continue(z, src, n) ==
  IF e.prefs.hc THEN LZ4_compressHC_continue(z, src, n) ELSE LZ4_compress_fast_continue(z, src, n)

Compress(src, n) ==
  IF e.prefs.linked THEN Continue(lz, src, n)
  ELSE IF e.cdict = 0 THEN OneShot(n)
  ELSE Continue(LZ4F_initStream(lz, e.prefs, e.cdict), src, n)

BlockChecksum(prefs)   == IF prefs.blockChecksum THEN BFSize ELSE 0
ContentChecksum(prefs) == IF prefs.contentChecksum THEN BFSize ELSE 0

(* A block that cannot be compressed is stored; no block takes more.       *)
LZ4F_makeBlock(src, n) ==
  LET result == Compress(src, n)
  IN  /\ block' = [text |-> Segment(src, n), history |-> result.history]
      /\ lz' = result.lz
      /\ done' = done + n
      /\ written' = written + BHSize + n + BlockChecksum(e.prefs)

-----------------------------------------------------------------------------
(* How much room a call may need.                                          *)
LZ4F_compressBound_internal(n, prefs, buffered) ==
  LET blockSize == LZ4F_getBlockSize(prefs.blockSizeID)
      maxSrcSize == n + Smaller(buffered, blockSize - 1)
      partial == maxSrcSize % blockSize
      last == IF prefs.autoFlush \/ n = 0 THEN partial ELSE 0
      nbBlocks == maxSrcSize \div blockSize + IF last > 0 THEN 1 ELSE 0
  IN  (BHSize + BlockChecksum(prefs)) * nbBlocks + maxSrcSize - partial + last
        + BHSize + ContentChecksum(prefs)

\* A mutant of LZ4F_compressBound: forgets what is in the buffer.
LZ4F_compressBoundUnbuffered(n, prefs) == LZ4F_compressBound_internal(n, prefs, 0)

LZ4F_compressBound(n, prefs) ==
  LZ4F_compressBound_internal(n, prefs, IF prefs.autoFlush THEN 0 ELSE LargestTmpBuff)

LZ4F_compressFrameBound(n, prefs) ==
  maxFHSize + LZ4F_compressBound_internal(n, [prefs EXCEPT !.autoFlush = TRUE], 0)

(* The smallest block size a text fits into, and not more than was asked.  *)
LZ4F_optimalBSID(requested, n) ==
  LET enough == { id \in LZ4F_max64KB .. requested - 1 : n <= LZ4F_getBlockSize(id) }
  IN  IF enough = {} THEN requested ELSE CHOOSE id \in enough : \A other \in enough : id <= other

-----------------------------------------------------------------------------
NoBlock == [text |-> << >>, history |-> << >>]
NoCall  == [op |-> "none", src |-> PASSING, n |-> 0, size |-> 0, stable |-> FALSE,
            capacity |-> 0, last |-> "notDone"]

(* LZ4F_createCompressionContext gives an empty one.                       *)
NewContext(maxBufferSize, type) ==
  [cStage |-> 0, prefs |-> CHOOSE p \in Prefs : TRUE, cdict |-> 0, lz4CtxAlloc |-> type,
   lz4CtxState |-> type, maxBufferSize |-> maxBufferSize, allocated |-> 0,
   tmpIn |-> TMPBUFF, tmpInSize |-> 0, totalInSize |-> 0]

EncoderInit ==
  /\ e = NewContext(0, 0) /\ lz = NoHistory
  /\ m = [a \in Addresses |-> IF a >= DICT THEN a - DICTEND + 1 ELSE Unknown]
  /\ call = NoCall /\ at = "idle"
  /\ given = 0 /\ done = 0 /\ block = NoBlock /\ written = 0
  /\ frames = 0 /\ outcome = "none"

(* A digested dictionary keeps the last 64 KB.                             *)
LZ4F_createCDict(size) == Smaller(size, KB64)

HeaderSize(prefs) == minFHSize + IF prefs.contentSize > 0 THEN SizeField ELSE 0

(* tmpBuff fits what is kept in it: with autoFlush no text, without linked *)
(* blocks no history.                                                      *)
Required(prefs) ==
  (IF prefs.autoFlush THEN 0 ELSE LZ4F_getBlockSize(prefs.blockSizeID))
    + IF ~prefs.linked THEN 0 ELSE IF prefs.autoFlush THEN KB64 ELSE 2 * KB64

ContextType(prefs) == IF prefs.hc THEN 2 ELSE 1

(* What the sizes are, and that the largest buffer is one.                 *)
Preferences ==
  [linked : BOOLEAN, autoFlush : BOOLEAN, hc : BOOLEAN, blockChecksum : BOOLEAN,
   contentChecksum : BOOLEAN, contentSize : Nat, blockSizeID : { 0 } \cup 4 .. 7]

EncoderSizes ==
  /\ KB64 \in Nat \ {0} /\ KB4 \in Nat /\ Tiny \in Nat
  /\ BHSize \in Nat /\ BFSize \in Nat /\ BFSize <= BHSize
  /\ minFHSize \in Nat /\ SizeField \in Nat /\ maxFHSize \in Nat
  /\ minFHSize + SizeField <= maxFHSize
  /\ MaxText \in Nat /\ MaxPiece \in Nat /\ MaxFrames \in Nat \ {0}
  /\ DictSizes \subseteq Nat
  /\ Prefs \subseteq Preferences /\ Prefs # {}
  /\ LargestTmpBuff \in Nat /\ \A prefs \in Prefs : Required(prefs) <= LargestTmpBuff

(* A context for the other compressor is cleared.                          *)
Fitting(x, z, prefs) ==
  IF x.lz4CtxAlloc < ContextType(prefs) \/ x.lz4CtxState # ContextType(prefs)
  THEN NoHistory ELSE z

LZ4F_compressBegin_usingCDict(x, z, prefs, cdict) ==
  LET more  == x.maxBufferSize < Required(prefs)
      clean == Fitting(x, z, prefs)
  IN  /\ e' = [x EXCEPT !.prefs = prefs, !.cdict = cdict, !.cStage = 1,
                 !.lz4CtxAlloc = IF @ < ContextType(prefs) THEN ContextType(prefs) ELSE @,
                 !.lz4CtxState = ContextType(prefs),
                 !.maxBufferSize = IF more THEN Required(prefs) ELSE @,
                 !.allocated = IF more THEN Required(prefs) ELSE @,
                 !.tmpIn = TMPBUFF, !.tmpInSize = 0,
                 !.totalInSize = IF prefs.contentSize > 0 THEN 0 ELSE @]
      /\ lz' = IF prefs.linked THEN LZ4F_initStream(clean, prefs, cdict) ELSE clean
      /\ m' = IF more THEN Forgotten(TMPBUFF, PASSING) ELSE m
      /\ done' = 0 /\ block' = NoBlock
      /\ frames' = frames + 1

(* A frame that was begun may be given up for another one.                 *)
LZ4F_compressBegin ==
  /\ at = "idle" /\ frames < MaxFrames
  /\ \E prefs \in Prefs, size \in DictSizes :
       /\ maxFHSize >= HeaderSize(prefs)
       /\ LZ4F_compressBegin_usingCDict(e, lz, prefs, LZ4F_createCDict(size))
  /\ given' = 0 /\ outcome' = "none"
  /\ UNCHANGED << call, written, at >>

(* LZ4F_compressFrame with the caller's context; without, it has one of    *)
(* its own whose buffer is never allocated.                                *)
FramePrefs(prefs, n) ==
  LET id == LZ4F_optimalBSID(prefs.blockSizeID, n)
  IN  [prefs EXCEPT !.contentSize = IF @ = 0 THEN 0 ELSE n, !.blockSizeID = id,
                    !.autoFlush = TRUE, !.linked = @ /\ n > LZ4F_getBlockSize(id)]

LZ4F_compressFrame ==
  /\ at = "idle" /\ frames < MaxFrames
  /\ \E prefs \in Prefs, size \in DictSizes, n \in 0 .. MaxText, own \in BOOLEAN :
       LET p == FramePrefs(prefs, n)
           dstCapacity == LZ4F_compressFrameBound(n, prefs)
       IN  /\ own => frames = 0 /\ size = 0
           /\ LZ4F_compressBegin_usingCDict(
                IF own THEN NewContext(80 * KB64, IF p.hc THEN 0 ELSE 1) ELSE e, lz, p,
                LZ4F_createCDict(size))
           /\ call' = [op |-> IF own THEN "ownFrame" ELSE "frame", src |-> STAYING, n |-> n, size |-> n,
                       stable |-> TRUE, capacity |-> dstCapacity, last |-> "notDone"]
           /\ written' = HeaderSize(p)
           /\ IF dstCapacity < LZ4F_compressFrameBound(n, p)
              THEN outcome' = "tooSmall" /\ at' = "error"
              ELSE outcome' = "none" /\ at' = "piece"
  /\ given' = 0

-----------------------------------------------------------------------------
LZ4F_compressUpdate ==
  /\ at = "idle" /\ e.cStage = 1
  /\ \E n \in 0 .. MaxPiece, stable \in BOOLEAN :
       /\ given + n <= MaxText
       /\ call' = [op |-> "update", src |-> IF stable THEN STAYING + given ELSE PASSING,
                   n |-> n, size |-> n, stable |-> stable,
                   capacity |-> LZ4F_compressBound(n, e.prefs), last |-> "notDone"]
  /\ at' = "piece" /\ written' = 0
  /\ UNCHANGED << e, lz, m, given, done, block, frames, outcome >>

Refuse(why) ==
  /\ outcome' = why /\ at' = "error"
  /\ UNCHANGED << e, lz, m, call, given, done, block, written, frames >>

(* The piece is in memory, and there is room for all that it may make.     *)
NewPiece ==
  /\ at = "piece"
  /\ IF call.capacity - written < LZ4F_compressBound_internal(call.n, e.prefs, e.tmpInSize)
     THEN Refuse("tooSmall")
     ELSE /\ m' = Written(call.src, Text(given, given + call.n))
          /\ given' = given + call.n
          /\ at' = "complete"
          /\ UNCHANGED << e, lz, call, done, block, written, frames, outcome >>

blockSize   == LZ4F_getBlockSize(e.prefs.blockSizeID)
Consumed(k) == [call EXCEPT !.src = @ + k, !.n = @ - k]

(* A block that was begun in tmpIn is completed first.                     *)
FillTmpIn ==
  /\ at = "complete"
  /\ LET k == IF e.tmpInSize = 0 THEN 0 ELSE Smaller(blockSize - e.tmpInSize, call.n)
     IN  /\ m' = Written(e.tmpIn + e.tmpInSize, Segment(call.src, k))
         /\ e' = [e EXCEPT !.tmpInSize = @ + k]
         /\ call' = Consumed(k)
         /\ at' = IF e.tmpInSize + k = blockSize THEN "tmpBlock" ELSE "blocks"
  /\ UNCHANGED << lz, given, done, block, written, frames, outcome >>

AfterTmpBlock(n) == [e EXCEPT !.tmpIn = IF e.prefs.linked THEN @ + n ELSE @, !.tmpInSize = 0]

TmpBlock ==
  /\ at = "tmpBlock"
  /\ LZ4F_makeBlock(e.tmpIn, blockSize)
  /\ e' = AfterTmpBlock(blockSize)
  /\ call' = [call EXCEPT !.last = "fromTmpBuffer"]
  /\ at' = "blocks"
  /\ UNCHANGED << m, given, frames, outcome >>

(* Blocks straight from the piece: full ones, with autoFlush also the rest.*)
SrcBlock ==
  /\ at = "blocks"
  /\ LET n == Smaller(blockSize, call.n)
     IN  IF n = blockSize \/ (e.prefs.autoFlush /\ n > 0)
         THEN /\ LZ4F_makeBlock(call.src, n)
              /\ call' = [Consumed(n) EXCEPT !.last = "fromSrcBuffer"]
              /\ UNCHANGED at
         ELSE at' = "preserve" /\ UNCHANGED << lz, call, done, block, written >>
  /\ UNCHANGED << e, m, given, frames, outcome >>

(* LZ4_saveDict, LZ4_saveDictHC: the last 64 KB move to the beginning of   *)
(* tmpBuff, from the segment of the last block.                            *)
LZ4F_localSaveDict ==
  LET n == Smaller(lz.size, KB64)
  IN  /\ m' = Written(TMPBUFF, Segment(End(lz) - n, n))
      /\ lz' = [lz EXCEPT !.from = TMPBUFF, !.size = n, !.extFrom = NULL, !.extSize = 0]
      /\ e' = [e EXCEPT !.tmpIn = TMPBUFF + n]

\* A mutant of PreserveDictionary: every piece is taken to stay where it is.
PreserveDictionaryNever ==
  /\ at = "preserve"
  /\ e' = IF e.prefs.linked /\ call.last = "fromSrcBuffer" THEN [e EXCEPT !.tmpIn = TMPBUFF] ELSE e
  /\ at' = "limits"
  /\ UNCHANGED << lz, m, call, given, done, block, written, frames, outcome >>

PreserveDictionary ==
  /\ at = "preserve"
  /\ IF ~(e.prefs.linked /\ call.last = "fromSrcBuffer")
     THEN at' = "limits" /\ UNCHANGED << e, lz, m, outcome >>
     ELSE IF call.stable
     THEN at' = "limits" /\ e' = [e EXCEPT !.tmpIn = TMPBUFF] /\ UNCHANGED << lz, m, outcome >>
     ELSE /\ LZ4F_localSaveDict
          /\ IF lz.size = 0 THEN outcome' = "error" /\ at' = "error"
             ELSE at' = "limits" /\ UNCHANGED outcome
  /\ UNCHANGED << call, given, done, block, written, frames >>

BeyondLimits == e.tmpIn + blockSize > TMPBUFF + e.maxBufferSize

TmpInWithinLimits ==
  /\ at = "limits"
  /\ IF BeyondLimits /\ ~e.prefs.autoFlush THEN LZ4F_localSaveDict ELSE UNCHANGED << e, lz, m >>
  /\ at' = "rest"
  /\ UNCHANGED << call, given, done, block, written, frames, outcome >>

(* What is left waits in tmpIn.                                            *)
KeepRest ==
  /\ at = "rest"
  /\ m' = Written(e.tmpIn, Segment(call.src, call.n))
  /\ e' = [e EXCEPT !.tmpInSize = IF call.n > 0 THEN call.n ELSE @,
                    !.totalInSize = @ + call.size]
  /\ at' = IF call.op = "update" THEN "return" ELSE "flush"
  /\ UNCHANGED << lz, call, given, done, block, written, frames, outcome >>

(* After a call a piece that does not stay is overwritten.  The context    *)
(* that LZ4F_compressFrame has of its own is gone: the model ends.         *)
Return ==
  /\ at = "return"
  /\ at' = "idle" /\ call' = NoCall /\ block' = NoBlock /\ written' = 0
  /\ m' = Forgotten(PASSING, STAYING - PASSING)
  /\ frames' = IF call.op = "ownFrame" THEN MaxFrames ELSE frames
  /\ UNCHANGED << e, lz, given, done, outcome >>

-----------------------------------------------------------------------------
FlushOrEnd(name) ==
  /\ at = "idle" /\ e.cStage = 1
  /\ call' = [NoCall EXCEPT !.op = name, !.capacity = LZ4F_compressBound(0, e.prefs)]
  /\ at' = "flush" /\ written' = 0
  /\ UNCHANGED << e, lz, m, given, done, block, frames, outcome >>

LZ4F_flush       == FlushOrEnd("flush")
LZ4F_compressEnd == FlushOrEnd("end")

AfterFlush == IF call.op = "flush" THEN "return" ELSE "end"

FlushBlock ==
  /\ at = "flush"
  /\ IF e.tmpInSize = 0
     THEN at' = AfterFlush
          /\ UNCHANGED << e, lz, m, call, given, done, block, written, frames, outcome >>
     ELSE IF call.capacity - written < e.tmpInSize + BHSize + BFSize
     THEN Refuse("tooSmall")
     ELSE /\ LZ4F_makeBlock(e.tmpIn, e.tmpInSize)
          /\ e' = AfterTmpBlock(e.tmpInSize)
          /\ at' = "flushed"
          /\ UNCHANGED << m, call, given, frames, outcome >>

Flushed ==
  /\ at = "flushed"
  /\ IF BeyondLimits THEN LZ4F_localSaveDict ELSE UNCHANGED << e, lz, m >>
  /\ at' = AfterFlush
  /\ UNCHANGED << call, given, done, block, written, frames, outcome >>

EndFrame ==
  /\ at = "end"
  /\ IF call.capacity - written < BHSize + ContentChecksum(e.prefs)
     THEN Refuse("tooSmall")
     ELSE /\ written' = written + BHSize + ContentChecksum(e.prefs)
          /\ e' = [e EXCEPT !.cStage = 0, !.maxBufferSize = 0]
          /\ outcome' = IF e.prefs.contentSize \in { 0, e.totalInSize } THEN "done"
                        ELSE "frameSize_wrong"
          /\ at' = "return"
          /\ UNCHANGED << lz, m, call, given, done, block, frames >>

EncoderNext ==
  \/ LZ4F_compressBegin \/ LZ4F_compressFrame
  \/ LZ4F_compressUpdate \/ NewPiece \/ FillTmpIn \/ TmpBlock \/ SrcBlock
  \/ PreserveDictionary \/ TmpInWithinLimits \/ KeepRest \/ Return
  \/ LZ4F_flush \/ LZ4F_compressEnd \/ FlushBlock \/ Flushed \/ EndFrame

AllWritten ==
  at = "idle" /\ e.cStage = 0 /\ frames = MaxFrames /\ UNCHANGED encoderVars

EncoderSpec == EncoderInit /\ [][EncoderNext \/ AllWritten]_encoderVars

-----------------------------------------------------------------------------
(* A byte of the text or, before it, of the dictionary.                    *)
Right(k) == IF k <= 0 THEN k ELSE 100 * frames + k

(* The decoder will have, before each block, the very bytes the block      *)
(* refers to, whatever buffers they were in: those of the text right in    *)
(* front of it, and of the dictionary in front of that; a block that is    *)
(* not linked refers to the dictionary alone.  And the blocks make up the  *)
(* text without gaps.                                                      *)
BlocksFollow ==
  block # NoBlock =>
    LET n     == Len(block.text)
        past  == Len(block.history)
        start == IF e.prefs.linked THEN done - n ELSE 0
    IN  /\ \A k \in 1 .. n : block.text[k] = Right(done - n + k)
        /\ \A k \in 1 .. past : block.history[k] = Right(start - past + k)

(* A frame ends well when all of its text is in blocks, and its declared   *)
(* size, if any, is right.                                                 *)
EndsWell ==
  /\ outcome = "done" => done = given /\ e.prefs.contentSize \in { 0, given }
  /\ outcome = "frameSize_wrong" => e.prefs.contentSize # given

(* What waits for a full block, and the history before it, is in tmpBuff.  *)
InsideTmpBuff ==
  /\ \A a \in Addresses : a \in TMPBUFF + e.allocated .. PASSING - 1 => m[a] = Unknown
  /\ e.cStage = 1 /\ ~e.prefs.autoFlush /\ at \in { "idle", "rest" } =>
       /\ e.tmpIn + blockSize <= TMPBUFF + e.allocated
       /\ e.tmpInSize < blockSize

(* "LZ4F_compressUpdate ... dstCapacity MUST be large enough to ensure     *)
(* operation success even in worst case situations.  This value is         *)
(* provided by LZ4F_compressBound()": no call is refused, and none writes  *)
(* more.                                                                   *)
CapacitySuffices == at # "error" /\ written <= call.capacity
=============================================================================
