--------------------------- MODULE Lz4DecodeStream --------------------------
(***************************************************************************)
(* LZ4_decompress_safe_continue: blocks that refer to each other, decoded  *)
(* next to each other in a ring buffer.  A cell of the buffer holds the    *)
(* place its byte has in the stream.  Between the sequences of a block the *)
(* decoder must find every byte that a match may refer to, although its    *)
(* copies run over their end and overwrite what was decoded longest ago.   *)
(* The window of 64 KB is scaled down; the margins are the real ones.      *)
(***************************************************************************)
EXTENDS Integers

CONSTANTS
  KB64,                \* the window
  MaxBlock,            \* maxBlockSize: no block decodes to more
  LZ4_FAST_DEC_LOOP,
  Blocks, LitLengths, MatchLengths,  \* sizes that are looked at
  MaxText              \* bound on the length of the stream

(* LZ4_decoderRingBufferSize, the window scaled.                           *)
RingSizeNoMargin == KB64 + IF MaxBlock < 16 THEN 16 ELSE MaxBlock
RingSize == KB64 + 14 + IF MaxBlock < 16 THEN 16 ELSE MaxBlock

VARIABLES
  ring,                      \* what the caller's buffer holds
  prefixSize, prefixEnd,     \* the segment that was decoded last
  extDictSize, externalDict, \* the segment before it, from its first byte
  text,                      \* bytes that were decoded before the block
  pc,
  dest, size, k              \* the block: where it goes, its size, what is done

streamVars == << ring, prefixSize, prefixEnd, extDictSize, externalDict, text, pc, dest, size, k >>
context    == << prefixSize, prefixEnd, extDictSize, externalDict >>

Garbage == -1
LZ4_DISTANCE_MAX == KB64 - 1

Most(a, b)  == IF a > b THEN a ELSE b
Least(a, b) == IF a < b THEN a ELSE b
WildCopy8(n)  == 8 * ((Most(n, 1) + 7) \div 8)
WildCopy32(n) == 32 * ((Most(n, 1) + 31) \div 32)

DecodeStreamInit ==
  /\ ring = [c \in 0 .. RingSize - 1 |-> Garbage]
  /\ prefixSize = 0 /\ prefixEnd = 0 /\ extDictSize = 0 /\ externalDict = 0
  /\ text = 0
  /\ pc = "idle" /\ dest = 0 /\ size = 0 /\ k = 0

-----------------------------------------------------------------------------
(* The caller decodes the next block right after the last one, or at the   *)
(* start of the ring when the room is not enough for the largest block.    *)
nextDest == IF RingSize - prefixEnd < MaxBlock THEN 0 ELSE prefixEnd

(* Where the decoder looks for what came before: in the segment it goes on *)
(* with, or the segment becomes the external dictionary.                   *)
SameSegmentKept == UNCHANGED << extDictSize, externalDict, prefixSize >>
NewSegment ==
  /\ extDictSize' = prefixSize
  /\ externalDict' = prefixEnd - prefixSize
  /\ prefixSize' = 0

StartBlock ==
  /\ pc = "idle"
  /\ size' \in { n \in Blocks : text + n <= MaxText }
  /\ dest' = nextDest
  /\ IF prefixSize = 0 \/ prefixEnd = nextDest THEN SameSegmentKept ELSE NewSegment
  /\ prefixEnd' = nextDest
  /\ pc' = "literals" /\ k' = 0
  /\ UNCHANGED << ring, text >>

(* len bytes are decoded by a copy that covers wide bytes.                 *)
Decode(len, wide) ==
  /\ ring' = [c \in 0 .. RingSize - 1 |->
               CASE c - dest \in k .. k + len - 1 -> text + c - dest
                 [] c - dest \in k + len .. k + wide - 1 -> Garbage
                 [] OTHER -> ring[c]]
  /\ k' = k + len

(* What the copy of literals covers: exactly the last ones, 16 bytes for a *)
(* few, steps of 8, or of 32 far from the ends of the buffer and the block.*)
LiteralCopy(len) ==
  IF k + len = size THEN { len }
  ELSE { w \in { 16 } : len <= 14 /\ k <= MaxBlock - 32 }
       \union { w \in { WildCopy8(len) } : k + len <= MaxBlock - 12 }
       \union { w \in { WildCopy32(len) } : /\ LZ4_FAST_DEC_LOOP /\ len >= 15
                                            /\ k <= MaxBlock - 64 /\ k + len <= size - 32 }

Literals ==
  /\ pc = "literals"
  /\ \E len \in { n \in LitLengths : k + n <= size - 12 } \union { size - k } :
       /\ \E wide \in LiteralCopy(len) : Decode(len, wide)
       /\ pc' = IF k + len = size THEN "end" ELSE "match"
  /\ UNCHANGED << context, text, dest, size >>

(* What the copy of a match covers: exactly the bytes of the external      *)
(* dictionary, 18 bytes for a few, steps of 8, or of 32 in the fast loop.  *)
MatchCopy(len) ==
  { len }
  \union { w \in { 18 } : len <= 18 /\ k <= MaxBlock - 18 }
  \union { w \in { Least(MaxBlock - k, Most(16, WildCopy8(len))) } : k + len <= MaxBlock - 5 }
  \union { w \in { WildCopy32(len) } : LZ4_FAST_DEC_LOOP /\ len > 18 /\ k + len < MaxBlock - 64 }

Match ==
  /\ pc = "match" /\ text + k > 0
  /\ \E len \in { n \in MatchLengths : k + n <= size - 5 } :
       \E wide \in MatchCopy(len) : Decode(len, wide)
  /\ pc' = "literals"
  /\ UNCHANGED << context, text, dest, size >>

(* The block is the rest of the segment now.                               *)
EndBlock ==
  /\ pc = "end"
  /\ prefixSize' = prefixSize + size
  /\ prefixEnd' = prefixEnd + size
  /\ text' = text + size
  /\ pc' = "idle" /\ k' = 0 /\ size' = 0 /\ dest' = 0
  /\ UNCHANGED << ring, extDictSize, externalDict >>

DecodeStreamNext == StartBlock \/ Literals \/ Match \/ EndBlock

DecodeStreamSpec == DecodeStreamInit /\ [][DecodeStreamNext]_streamVars

-----------------------------------------------------------------------------
(* What the decoder takes for the byte at distance offset.                 *)
ByteAt(offset) ==
  IF offset <= k + prefixSize THEN ring[dest + k - offset]
  ELSE ring[externalDict + extDictSize - (offset - k - prefixSize)]

(* A ring buffer of LZ4_decoderRingBufferSize is compatible with any       *)
(* source: whatever an encoder may refer to, up to 64 KB back and not      *)
(* before the start of the stream, is inside the window the decoder keeps  *)
(* and has not been overwritten, not even by copies that run over.         *)
RingBufferSuffices ==
  pc = "match" =>
    \A offset \in 1 .. Least(LZ4_DISTANCE_MAX, text + k) :
      /\ offset <= k + prefixSize + extDictSize
      /\ ByteAt(offset) = text + k - offset
=============================================================================
