-------------------------- MODULE Lz4FrameDecoder ---------------------------
(***************************************************************************)
(* LZ4F_decompress: a caller hands over frames in pieces of any size and   *)
(* takes the text out through buffers of any size.  A byte of the input is *)
(* its position in the frame, a byte of the text its index in the text of  *)
(* the frame; the dictionary has the indexes below 0.  Frames are intact.  *)
(*                                                                         *)
(* The sizes of the format are scaled down.                                *)
(***************************************************************************)
EXTENDS Integers, Sequences

CONSTANTS
  minFHSize, maxFHSize, SizeField,  \* bytes of a header: least, most, its optional part
  BHSize, BFSize,                   \* bytes of a block's header, of a checksum
  KB64,                             \* how far back a match may reach
  maxBlockSize,
  DstSize, MaxGiven, MaxRoom,       \* the caller's memory, the largest pieces in a call
  Streams,                          \* the sequences of frames
  DictSize, StableDst, MaxResets

(* Header and tmpIn, where the bytes of a field that is cut are gathered,   *)
(* are one array here, as large as the larger one, tmpIn.                  *)
ASSUME FormatAssumption ==
  /\ { maxFHSize, SizeField, KB64, DstSize, MaxGiven, MaxRoom, DictSize, MaxResets } \subseteq Nat
  /\ { minFHSize, BHSize, BFSize, maxBlockSize } \subseteq Nat \ {0}
  /\ BHSize <= minFHSize /\ minFHSize < 2 * BHSize
  /\ minFHSize + SizeField <= maxFHSize
  /\ { minFHSize + SizeField, 2 * BHSize } \subseteq 0 .. maxBlockSize + BFSize
  /\ StableDst \in BOOLEAN

(* A block with no bytes would be taken for the mark behind the last one.  *)
Block == { k \in [raw : BOOLEAN, csize : Nat \ {0}, size : Nat] :
             k.csize <= maxBlockSize /\ k.size <= maxBlockSize /\ (k.raw => k.size = k.csize) }
(* at[k] of a frame's text lie in its first k blocks.                      *)
InBlocksUpTo(frame, at) ==
  /\ at[0] = 0 /\ at[Len(frame.blocks)] = frame.size
  /\ \A k \in 1 .. Len(frame.blocks) : at[k] = at[k - 1] + frame.blocks[k].size

IntactFrame ==
  { frame \in [skippable : BOOLEAN, linked : BOOLEAN, sized : BOOLEAN, checksum : BOOLEAN,
               blockChecksum : BOOLEAN, blocks : Seq(Block), size : Nat] :
      frame.skippable \/ \E at \in [0 .. Len(frame.blocks) -> 0 .. frame.size] :
                           InBlocksUpTo(frame, at) }

ASSUME StreamsAssumption == Streams \subseteq Seq(IntactFrame)

VARIABLES
  stream,  \* the frames that are not yet done with
  d,       \* LZ4F_dctx
  c,       \* the call: what is left of its input and its output
  t,       \* where the frame's next field begins, its blocks so far, the text so far
  mem,     \* the caller's output buffer, dctx's tmpOutBuffer, the dictionary
  phase, resets

frameDecoderVars == << stream, d, c, t, mem, phase, resets >>

NULL == -1
Garbage == -100
TMP  == DstSize + 1                     \* tmpOutBuffer
DICT == TMP + maxBlockSize + 2 * KB64 + 1
Memory == 0 .. DICT + DictSize

f == Head(stream)

Lesser(a, b)   == IF a < b THEN a ELSE b
Bytes(from, n) == [k \in 1 .. n |-> from + k - 1]
Put(m, to, s)  == [a \in Memory |-> IF a - to \in 0 .. Len(s) - 1 THEN s[a - to + 1] ELSE m[a]]
Copy(m, to, from, n) == Put(m, to, [k \in 1 .. n |-> m[from + k - 1]])

HeaderSize(frame) == minFHSize + IF frame.sized THEN SizeField ELSE 0
crcSize == IF f.blockChecksum THEN BFSize ELSE 0
b       == f.blocks[t.block]            \* the block whose header was read

-----------------------------------------------------------------------------
NewCall(given, at, room, start) ==
  [at |-> at, given |-> given, ptr |-> start, start |-> start, room |-> room,
   asked |-> given > 0 /\ room > 0, moved |-> FALSE]
NewText == [due |-> 0, block |-> 0, decoded |-> 0, delivered |-> 0]

FrameDecoderInit ==
  /\ stream \in Streams
  /\ d = [stage |-> "getFrameHeader", held |-> << >>, target |-> 0, remaining |-> 0,
          maxBufferSize |-> 0, tmpOut |-> NULL, tmpOutSize |-> 0, tmpOutStart |-> 0,
          dict |-> NULL, dictSize |-> 0, xxh |-> 0, blockSum |-> 0]
  /\ c = NewCall(0, 0, 0, 0)
  /\ t = NewText
  /\ mem = [a \in Memory |-> IF a >= DICT THEN a - DICT - DictSize ELSE Garbage]
  /\ phase = "idle"
  /\ resets = 0

Stop(stage) == phase = "loop" /\ d.stage = stage
Consumed(k) == [c EXCEPT !.at = @ + k, !.given = @ - k, !.moved = @ \/ k > 0]

(* The bytes of a field, straight from the input or gathered before, are   *)
(* the ones of the field that is due.                                      *)
IsDue(bytes) == bytes = Bytes(t.due, Len(bytes))
Gathered(n)  == d.held \o Bytes(c.at, Lesser(n - Len(d.held), c.given))
Gather(n, Whole(_)) ==
  /\ c' = Consumed(Lesser(n - Len(d.held), c.given))
  /\ IF Len(Gathered(n)) < n
     THEN d' = [d EXCEPT !.held = Gathered(n)] /\ phase' = "leave" /\ UNCHANGED << stream, t, mem >>
     ELSE Whole(Gathered(n))

Refuse == phase' = "error" /\ UNCHANGED << stream, d, t, mem >>

Reset(dctx) == [dctx EXCEPT !.stage = "getFrameHeader", !.dict = NULL, !.dictSize = 0]
FrameDone ==
  /\ d' = Reset(d)
  /\ stream' = Tail(stream)
  /\ t' = NewText
  /\ phase' = "leave"
  /\ UNCHANGED mem

-----------------------------------------------------------------------------
(* Headers of frames.  Of a frame that is to be skipped only the size at   *)
(* its beginning is read.                                                  *)
DecodeHeader(bytes, direct) ==
  IF ~IsDue(bytes) THEN Refuse
  ELSE /\ d' = IF f.skippable
               THEN IF direct THEN [d EXCEPT !.stage = "getSFrameSize"]
                    ELSE [d EXCEPT !.stage = "storeSFrameSize", !.held = bytes,
                                   !.target = 2 * BHSize]
               ELSE IF Len(bytes) < HeaderSize(f)
               THEN [d EXCEPT !.stage = "storeFrameHeader", !.held = bytes,
                              !.target = HeaderSize(f)]
               ELSE [d EXCEPT !.stage = "init",
                              !.remaining = IF f.sized THEN f.size ELSE @]
       /\ t' = IF f.skippable \/ Len(bytes) < HeaderSize(f) THEN t
               ELSE [t EXCEPT !.due = HeaderSize(f)]
       /\ UNCHANGED << stream, mem, phase >>

HeaderTaken == IF f.skippable THEN BHSize ELSE HeaderSize(f)

GetFrameHeader ==
  /\ Stop("getFrameHeader")
  /\ IF c.given >= maxFHSize
     THEN DecodeHeader(Bytes(c.at, c.given), TRUE) /\ c' = Consumed(HeaderTaken)
     ELSE IF c.given = 0
     THEN phase' = "idle" /\ d' = [d EXCEPT !.held = << >>] /\ UNCHANGED << stream, c, t, mem >>
     ELSE /\ d' = [d EXCEPT !.held = << >>, !.target = minFHSize, !.stage = "storeFrameHeader"]
          /\ UNCHANGED << stream, c, t, mem, phase >>

StoreFrameHeader ==
  /\ Stop("storeFrameHeader")
  /\ LET Whole(bytes) == DecodeHeader(bytes, FALSE) IN Gather(d.target, Whole)

(* Larger buffers are new ones.                                            *)
InitFrame ==
  /\ Stop("init")
  /\ LET needed == maxBlockSize + IF f.linked THEN 2 * KB64 ELSE 0
     IN  /\ d' = [d EXCEPT !.stage = "getBlockHeader", !.xxh = 0, !.held = << >>, !.target = 0,
                           !.tmpOut = TMP, !.tmpOutStart = 0, !.tmpOutSize = 0,
                           !.maxBufferSize = IF needed > @ THEN needed ELSE @]
         /\ mem' = IF needed <= d.maxBufferSize THEN mem
                   ELSE [a \in Memory |-> IF a \in TMP .. DICT - 1 THEN Garbage ELSE mem[a]]
  /\ UNCHANGED << stream, c, t, phase >>

-----------------------------------------------------------------------------
(* Headers of blocks.                                                      *)
DecodeBlockHeader(bytes) ==
  IF ~IsDue(bytes) THEN Refuse
  ELSE /\ t' = [t EXCEPT !.due = @ + BHSize, !.block = @ + 1]
       /\ UNCHANGED << stream, mem >>
       /\ IF t.block = Len(f.blocks)
          THEN d' = [d EXCEPT !.stage = "getSuffix"] /\ UNCHANGED phase
          ELSE LET next == f.blocks[t.block + 1]
               IN  IF next.raw
                   THEN /\ d' = [d EXCEPT !.target = next.csize, !.blockSum = 0,
                                          !.stage = "copyDirect"]
                        /\ UNCHANGED phase
                   ELSE /\ d' = [d EXCEPT !.target = next.csize + crcSize, !.stage = "getCBlock"]
                        /\ phase' = IF c.room = 0 \/ c'.given = 0 THEN "leave" ELSE phase

\* A mutant of GetBlockHeader: the bytes of the last field are not forgotten.
GetBlockHeaderKept ==
  /\ Stop("getBlockHeader")
  /\ IF c.given >= BHSize
     THEN c' = Consumed(BHSize) /\ DecodeBlockHeader(Bytes(c.at, BHSize))
     ELSE d' = [d EXCEPT !.stage = "storeBlockHeader"] /\ UNCHANGED << stream, c, t, mem, phase >>

GetBlockHeader ==
  /\ Stop("getBlockHeader")
  /\ IF c.given >= BHSize
     THEN c' = Consumed(BHSize) /\ DecodeBlockHeader(Bytes(c.at, BHSize))
     ELSE /\ d' = [d EXCEPT !.held = << >>, !.stage = "storeBlockHeader"]
          /\ UNCHANGED << stream, c, t, mem, phase >>

StoreBlockHeader == Stop("storeBlockHeader") /\ Gather(BHSize, DecodeBlockHeader)

-----------------------------------------------------------------------------
\* A mutant of InFrontOfTmpOut: what tmpOut has handed out counts as older.
InFrontOfTmpOutStale(m, dict, size) ==
  LET preserve == d.tmpOut - TMP
      copied == IF d.tmpOutSize > KB64 THEN 0 ELSE Lesser(KB64 - d.tmpOutSize, preserve)
  IN  Copy(m, TMP + preserve - copied, dict + size - copied, copied)

(* The history: what a linked block may copy from lies in the caller's     *)
(* output as long as possible, otherwise in tmpOutBuffer.                  *)
(* The history before what tmpOut has already handed out moves in front of *)
(* tmpOut.                                                                 *)
InFrontOfTmpOut(m, dict, size) ==
  LET preserve == d.tmpOut - TMP
      copied == IF d.tmpOutSize > KB64 THEN 0 ELSE Lesser(KB64 - d.tmpOutSize, preserve)
  IN  Copy(m, TMP + preserve - copied, dict + size - d.tmpOutStart - copied, copied)

LZ4F_updateDict(m, n, withinTmp) ==
  LET dict == IF d.dictSize = 0 THEN c.ptr ELSE d.dict
      size == d.dictSize
      inDst == c.ptr - c.start + n
      full   == size + n > d.maxBufferSize
      kept   == IF full THEN KB64 - n ELSE size
      joined == Lesser(KB64 - n, size)
  IN  IF dict + size = c.ptr
      THEN [mem |-> m, dict |-> dict, size |-> size + n]
      ELSE IF inDst >= KB64
      THEN [mem |-> m, dict |-> c.start, size |-> inDst]
      ELSE IF withinTmp /\ dict = TMP
      THEN [mem |-> m, dict |-> dict, size |-> size + n]
      ELSE IF withinTmp
      THEN [mem |-> InFrontOfTmpOut(m, dict, size), dict |-> TMP,
            size |-> d.tmpOut - TMP + d.tmpOutStart + n]
      ELSE IF dict = TMP
      THEN [mem |-> Copy(IF full THEN Copy(m, TMP, TMP + size - kept, kept) ELSE m,
                         TMP + kept, c.ptr, n),
            dict |-> dict, size |-> kept + n]
      ELSE [mem |-> Copy(Copy(m, TMP, dict + size - joined, joined), TMP + joined, c.ptr, n),
            dict |-> TMP, size |-> joined + n]

(* Text bytes s go to the caller.                                          *)
Deliver(m, s, withinTmp, after) ==
  LET written == Put(m, c.ptr, s)
      history == IF f.linked THEN LZ4F_updateDict(written, Len(s), withinTmp)
                 ELSE [mem |-> written, dict |-> d.dict, size |-> d.dictSize]
  IN  /\ mem' = history.mem
      /\ d' = [after EXCEPT !.dict = history.dict, !.dictSize = history.size]

(* The checksum of the text covers the bytes 0, 1, 2 ... in this order.    *)
Update(xxh, s) == IF s = Bytes(xxh, Len(s)) THEN xxh + Len(s) ELSE Garbage
Counted(n)     == IF f.sized THEN d.remaining - n ELSE d.remaining

CopyDirect ==
  /\ Stop("copyDirect")
  /\ LET n == IF c.ptr = NULL THEN 0 ELSE Lesser(d.target, Lesser(c.given, c.room))
         s == IF c.at = t.due + b.csize - d.target THEN Bytes(t.decoded, n)
              ELSE [k \in 1 .. n |-> Garbage]
         after == [d EXCEPT !.blockSum = @ + n, !.xxh = Update(@, s), !.target = @ - n,
                            !.remaining = Counted(n),
                            !.held = IF n = d.target THEN << >> ELSE @,
                            !.stage = IF n < d.target THEN @
                                      ELSE IF f.blockChecksum THEN "getBlockChecksum"
                                      ELSE "getBlockHeader"]
     IN  /\ IF c.ptr = NULL THEN d' = d /\ UNCHANGED mem ELSE Deliver(mem, s, FALSE, after)
         /\ c' = [Consumed(n) EXCEPT !.ptr = IF @ = NULL THEN @ ELSE @ + n, !.room = @ - n]
         /\ t' = [t EXCEPT !.decoded = @ + n, !.delivered = @ + n,
                           !.due = IF n = d.target THEN @ + b.csize ELSE @]
         /\ phase' = IF n = d.target THEN phase ELSE "leave"
  /\ UNCHANGED stream

CheckBlock(bytes) ==
  IF ~IsDue(bytes) \/ d.blockSum # b.csize THEN Refuse
  ELSE /\ d' = [d EXCEPT !.stage = "getBlockHeader"]
       /\ t' = [t EXCEPT !.due = @ + BFSize]
       /\ UNCHANGED << stream, mem, phase >>

GetBlockChecksum ==
  /\ Stop("getBlockChecksum")
  /\ IF c.given >= BFSize /\ d.held = << >>
     THEN c' = Consumed(BFSize) /\ CheckBlock(Bytes(c.at, BFSize))
     ELSE Gather(BFSize, CheckBlock)

-----------------------------------------------------------------------------
(* LZ4_decompress_safe_usingDict writes a block to an address, given the   *)
(* text before it, as far as a match may reach.                            *)
HistoryAt(m, dict, size, to) ==
  LET first == IF f.linked THEN t.decoded ELSE 0
      need  == Lesser(KB64, first + DictSize)
      from  == dict + size - need
  IN  /\ size >= need
      /\ \A k \in 0 .. need - 1 : m[from + k] = first - need + k
      /\ need = 0 \/ from + need <= to \/ to + b.size <= from

Decoded(m, dict, size, to) ==
  IF HistoryAt(m, dict, size, to) THEN Bytes(t.decoded, b.size)
  ELSE [k \in 1 .. b.size |-> Garbage]

\* A mutant of TmpOut: the history is never cut.
TmpOutUncut ==
  [m |-> mem, dictSize |-> d.dictSize,
   at |-> IF ~f.linked THEN d.tmpOut
          ELSE TMP + IF d.dict = TMP THEN d.dictSize ELSE Lesser(d.dictSize, KB64)]

(* Where a block is decoded that the caller has no room for.               *)
TmpOut ==
  IF ~f.linked THEN [m |-> mem, dictSize |-> d.dictSize, at |-> d.tmpOut]
  ELSE IF d.dict # TMP
  THEN [m |-> mem, dictSize |-> d.dictSize, at |-> TMP + Lesser(d.dictSize, KB64)]
  ELSE IF d.dictSize > 2 * KB64
  THEN [m |-> Copy(mem, TMP, TMP + d.dictSize - KB64, KB64), dictSize |-> KB64, at |-> TMP + KB64]
  ELSE [m |-> mem, dictSize |-> d.dictSize, at |-> TMP + d.dictSize]

DecodeBlock(bytes) ==
  IF ~IsDue(bytes) THEN Refuse
  ELSE /\ UNCHANGED << stream, phase >>
       /\ IF c.room >= maxBlockSize
          THEN LET s == Decoded(mem, d.dict, d.dictSize, c.ptr)
               IN  /\ Deliver(mem, s, FALSE,
                              [d EXCEPT !.xxh = Update(@, s), !.remaining = Counted(b.size),
                                        !.stage = "getBlockHeader"])
                   /\ t' = [t EXCEPT !.due = @ + b.csize + crcSize, !.decoded = @ + b.size,
                                     !.delivered = @ + b.size]
          ELSE LET s == Decoded(TmpOut.m, d.dict, TmpOut.dictSize, TmpOut.at)
               IN  /\ mem' = Put(TmpOut.m, TmpOut.at, s)
                   /\ d' = [d EXCEPT !.xxh = Update(@, s), !.remaining = Counted(b.size),
                                     !.dictSize = TmpOut.dictSize, !.tmpOut = TmpOut.at,
                                     !.tmpOutSize = b.size, !.tmpOutStart = 0,
                                     !.stage = "flushOut"]
                   /\ t' = [t EXCEPT !.due = @ + b.csize + crcSize, !.decoded = @ + b.size]

Produced(call) ==
  IF call.room < maxBlockSize THEN call
  ELSE [call EXCEPT !.ptr = @ + b.size, !.room = @ - b.size]

\* A mutant of GetCBlock: waits for a whole block.
GetCBlockWaits ==
  /\ Stop("getCBlock")
  /\ IF c.given < d.target THEN phase' = "leave" /\ UNCHANGED << stream, d, c, t, mem >>
     ELSE c' = Produced(Consumed(d.target)) /\ DecodeBlock(Bytes(c.at, d.target))

GetCBlock ==
  /\ Stop("getCBlock")
  /\ IF c.given < d.target
     THEN /\ d' = [d EXCEPT !.held = << >>, !.stage = "storeCBlock"]
          /\ UNCHANGED << stream, c, t, mem, phase >>
     ELSE c' = Produced(Consumed(d.target)) /\ DecodeBlock(Bytes(c.at, d.target))

StoreCBlock ==
  /\ Stop("storeCBlock")
  /\ IF Len(Gathered(d.target)) < d.target THEN Gather(d.target, DecodeBlock)
     ELSE /\ c' = Produced(Consumed(d.target - Len(d.held)))
          /\ DecodeBlock(Gathered(d.target))

FlushOut ==
  /\ Stop("flushOut")
  /\ LET n == Lesser(d.tmpOutSize - d.tmpOutStart, c.room)
         flushed == d.tmpOutStart + n = d.tmpOutSize
         after == [d EXCEPT !.tmpOutStart = @ + n,
                            !.stage = IF flushed THEN "getBlockHeader" ELSE @]
     IN  /\ IF c.ptr = NULL THEN d' = after /\ UNCHANGED mem
            ELSE Deliver(mem, [k \in 1 .. n |-> mem[d.tmpOut + d.tmpOutStart + k - 1]], TRUE, after)
         /\ c' = IF c.ptr = NULL THEN c
                 ELSE [c EXCEPT !.ptr = @ + n, !.room = @ - n, !.moved = @ \/ n > 0]
         /\ t' = [t EXCEPT !.delivered = @ + n]
         /\ phase' = IF flushed THEN phase ELSE "leave"
  /\ UNCHANGED stream

-----------------------------------------------------------------------------
CheckSuffix(bytes) == IF IsDue(bytes) /\ d.xxh = f.size THEN FrameDone ELSE Refuse

GetSuffix ==
  /\ Stop("getSuffix")
  /\ IF d.remaining # 0 THEN Refuse /\ UNCHANGED c
     ELSE IF ~f.checksum THEN FrameDone /\ c' = [c EXCEPT !.at = 0, !.moved = TRUE]
     ELSE IF c.given < BFSize
     THEN /\ d' = [d EXCEPT !.held = << >>, !.stage = "storeSuffix"]
          /\ UNCHANGED << stream, c, t, mem, phase >>
     ELSE CheckSuffix(Bytes(c.at, BFSize)) /\ c' = [Consumed(BFSize) EXCEPT !.at = 0]

StoreSuffix ==
  /\ Stop("storeSuffix")
  /\ IF Len(Gathered(BFSize)) < BFSize THEN Gather(BFSize, CheckSuffix)
     ELSE CheckSuffix(Gathered(BFSize)) /\ c' = [Consumed(BFSize - Len(d.held)) EXCEPT !.at = 0]

(* A frame to skip: a mark and a size, then bytes nobody looks at.         *)
SFrameSize(bytes) ==
  IF bytes # Bytes(BHSize, Len(bytes)) THEN Refuse
  ELSE /\ d' = [d EXCEPT !.target = f.size, !.stage = "skipSkippable"]
       /\ UNCHANGED << stream, t, mem, phase >>

GetSFrameSize ==
  /\ Stop("getSFrameSize")
  /\ IF c.given >= BHSize THEN c' = Consumed(BHSize) /\ SFrameSize(Bytes(c.at, BHSize))
     ELSE /\ d' = [d EXCEPT !.held = Bytes(0, BHSize), !.target = 2 * BHSize,
                            !.stage = "storeSFrameSize"]
          /\ UNCHANGED << stream, c, t, mem, phase >>

StoreSFrameSize ==
  /\ Stop("storeSFrameSize")
  /\ LET Whole(bytes) == SFrameSize(SubSeq(bytes, BHSize + 1, Len(bytes)))
     IN  Gather(d.target, Whole)

SkipSkippable ==
  /\ Stop("skipSkippable")
  /\ LET n == Lesser(d.target, c.given)
     IN  IF n = d.target THEN FrameDone /\ c' = [Consumed(n) EXCEPT !.at = 0]
         ELSE /\ c' = Consumed(n)
              /\ d' = [d EXCEPT !.target = @ - n]
              /\ phase' = "leave"
              /\ UNCHANGED << stream, t, mem >>

-----------------------------------------------------------------------------
(* Before LZ4F_decompress returns it saves the history that would be lost  *)
(* with the caller's buffer.                                               *)
InBlocks == { "init", "getBlockHeader", "storeBlockHeader", "copyDirect", "getBlockChecksum",
              "getCBlock", "storeCBlock", "flushOut" }

Leave ==
  /\ phase = "leave"
  /\ IF /\ d.stage \in InBlocks /\ f.linked
        /\ d.dict \notin { TMP, NULL } /\ ~StableDst
     THEN IF d.stage = "flushOut"
          THEN /\ mem' = InFrontOfTmpOut(mem, d.dict, d.dictSize)
               /\ d' = [d EXCEPT !.dict = TMP, !.dictSize = d.tmpOut - TMP + d.tmpOutStart]
          ELSE LET size == Lesser(d.dictSize, KB64)
               IN  /\ mem' = Copy(mem, TMP, d.dict + d.dictSize - size, size)
                   /\ d' = [d EXCEPT !.dict = TMP, !.dictSize = size, !.tmpOut = TMP + size]
     ELSE UNCHANGED << d, mem >>
  /\ phase' = "idle"
  /\ UNCHANGED << stream, c, t, resets >>

(* The caller's next call, with some of the bytes that are left and a      *)
(* buffer.  Unless it has pledged to keep it, the last one is overwritten. *)
LZ4F_decompress ==
  /\ phase = "idle" /\ stream # << >>
  /\ \E given \in 0 .. MaxGiven, room \in 0 .. MaxRoom :
     \E start \in IF StableDst /\ d.stage # "getFrameHeader" THEN { c.ptr, c.ptr + 1 } ELSE { 0 } :
       /\ start + room <= DstSize
       /\ c' = NewCall(given, c.at, room, start)
       /\ mem' = IF StableDst THEN mem
                 ELSE [a \in Memory |-> IF a < TMP THEN Garbage ELSE mem[a]]
  /\ d' = IF DictSize > 0 /\ d.stage \in { "getFrameHeader", "storeFrameHeader", "init" }
          THEN [d EXCEPT !.dict = DICT, !.dictSize = DictSize] ELSE d
  /\ phase' = "loop"
  /\ UNCHANGED << stream, t, resets >>

(* Asked for the parameters of a frame before anything of it was read, the *)
(* decoder reads the header, of which it is given all bytes.               *)
DecodeFrameInfo ==
  /\ phase = "idle" /\ stream # << >> /\ d.stage = "getFrameHeader"
  /\ ~StableDst
  /\ DecodeHeader(Bytes(c.at, IF f.skippable THEN 2 * BHSize ELSE HeaderSize(f)), TRUE)
  /\ c' = NewCall(0, c.at + HeaderTaken, 0, NULL)
  /\ UNCHANGED resets

(* Asked later, it goes through its stages without input and without a     *)
(* buffer.  When no more than the header was read, this begins the blocks, *)
(* and the dictionary of the next call comes too late: a caller with a     *)
(* dictionary does not ask then.                                           *)
LZ4F_getFrameInfo ==
  /\ phase = "idle" /\ stream # << >> /\ d.stage \notin { "getFrameHeader", "storeFrameHeader" }
  /\ d.stage = "init" => DictSize = 0
  /\ ~StableDst
  /\ c' = NewCall(0, c.at, 0, NULL)
  /\ phase' = "loop"
  /\ UNCHANGED << stream, d, t, mem, resets >>

LZ4F_resetDecompressionContext ==
  /\ phase = "idle" /\ Len(stream) > 1 /\ resets < MaxResets
  /\ d' = Reset(d)
  /\ stream' = Tail(stream)
  /\ c' = NewCall(0, 0, 0, 0)
  /\ t' = NewText
  /\ resets' = resets + 1
  /\ UNCHANGED << mem, phase >>

Stages ==
  /\ \/ GetFrameHeader \/ StoreFrameHeader \/ InitFrame
     \/ GetBlockHeader \/ StoreBlockHeader
     \/ CopyDirect \/ GetBlockChecksum \/ GetCBlock \/ StoreCBlock \/ FlushOut
     \/ GetSuffix \/ StoreSuffix
     \/ GetSFrameSize \/ StoreSFrameSize \/ SkipSkippable
  /\ UNCHANGED resets

FrameDecoderNext ==
  \/ Stages \/ Leave
  \/ LZ4F_decompress \/ DecodeFrameInfo \/ LZ4F_getFrameInfo \/ LZ4F_resetDecompressionContext

AllDecoded == phase = "idle" /\ stream = << >> /\ UNCHANGED frameDecoderVars

FrameDecoderSpec == FrameDecoderInit /\ [][FrameDecoderNext \/ AllDecoded]_frameDecoderVars

-----------------------------------------------------------------------------
(* What a call has put into the caller's buffer is the text that follows   *)
(* what earlier calls have put there, however input and output are cut     *)
(* into pieces and wherever the history is kept.                           *)
TextInOrder ==
  phase \in { "loop", "leave" } /\ c.ptr # NULL /\ d.stage # "getFrameHeader" =>
    \A a \in c.start .. c.ptr - 1 : mem[a] = t.delivered - (c.ptr - a)

(* At the end of a frame its whole text has been handed out.               *)
WholeText ==
  d.stage \in { "getSuffix", "storeSuffix" } =>
    t.delivered = f.size /\ t.block = Len(f.blocks) + 1

(* A call hands out the text in order, and no frame ends before its whole  *)
(* text is handed out.                                                     *)
TextHandedOut == TextInOrder /\ WholeText

(* The bytes of a field that was cut are put together right: an intact     *)
(* frame is never refused.                                                 *)
NeverRefused == phase # "error"

(* What is kept between calls fits into tmpIn and tmpOutBuffer; and so     *)
(* does the largest block behind the history.                              *)
InsideOwnBuffers ==
  /\ Len(d.held) <= maxBlockSize + BFSize
  /\ d.stage \in InBlocks \ { "init" } =>
       /\ d.dict = TMP => d.dictSize <= d.maxBufferSize
       /\ d.tmpOut + d.tmpOutSize <= TMP + d.maxBufferSize
       /\ d.stage \in { "getCBlock", "storeCBlock" } =>
            TmpOut.at + maxBlockSize <= TMP + d.maxBufferSize

(* A call that has a byte to read and room for a byte reads or hands out   *)
(* at least one, so that no caller gets stuck.                             *)
CallsMakeProgress == phase = "leave" /\ c.asked => c.moved

(* LZ4F_resetDecompressionContext leaves the number of bytes that a frame  *)
(* still has to give; so nothing is said of a caller who gives up a frame  *)
(* that announces its size.                                                *)
GivenUpUnsized ==
  MaxResets = 0 \/ \A s \in Streams : \A i \in 1 .. Len(s) - 1 : ~s[i].sized

(* "LZ4F_resetDecompressionContext() ... can also be used to abruptly stop *)
(* any unfinished decompression, and start a new one": the next frame is   *)
(* not refused.                                                            *)
ResetStartsAfresh == NeverRefused
=============================================================================
