---------------------------- MODULE Lz4HighOutput ----------------------------
(***************************************************************************)
(* What LZ4HC_compress_hashChain writes, and where, with the real          *)
(* constants.  Module Lz4HighMatches says which sequences it encodes; here *)
(* they are any that lie one behind the other.  Unlike                     *)
(* LZ4_compress_generic it encodes a sequence, finds that it has no room,  *)
(* and then goes back to where the sequence began.                         *)
(***************************************************************************)
EXTENDS Lz4Format

CONSTANTS
  SrcSizes, Capacities,
  LitLengths, MatchLengths   \* lengths that are looked at, besides the longest match

VARIABLES
  srcSize, capacity,
  limit,               \* notLimited, limitedOutput or fillOutput
  pc,
  anchor, ip, ml, op,
  optr,                \* op before the sequence
  lastSequence,        \* history: ends of the last sequence with a match
  reached              \* history: end of the bytes that were written

highVars   == << srcSize, capacity, limit, pc, anchor, ip, ml, op, optr, lastSequence, reached >>
highCaller == << srcSize, capacity, limit >>

iend       == srcSize
mflimit    == iend - MFLIMIT
matchlimit == iend - LASTLITERALS

(* The end of the output; when it is to be filled, of all but the last     *)
(* literals.                                                               *)
oend == IF limit = "fillOutput" THEN capacity - LASTLITERALS ELSE capacity

NoSequence == [literals |-> 0, code |-> 0, match |-> 0]

(* LZ4_compress_HC_extStateHC_fastReset, LZ4_compress_HC_destSize.         *)
HighInit ==
  /\ srcSize \in SrcSizes /\ capacity \in Capacities
  /\ limit \in { "fillOutput",
                 IF capacity < LZ4_compressBound(srcSize) THEN "limitedOutput" ELSE "notLimited" }
  /\ pc = IF limit = "fillOutput" /\ capacity < 1 THEN "failed"
          ELSE IF srcSize < LZ4_minLength THEN "last" ELSE "main"
  /\ anchor = 0 /\ ip = 0 /\ ml = 0 /\ op = 0 /\ optr = 0
  /\ lastSequence = NoSequence
  /\ reached = 0

-----------------------------------------------------------------------------
(* LZ4HC_encodeSequence: room for literals whose token is at op, ...       *)
LiteralRoom(length) ==
  op + 1 + length \div 255 + length + (2 + 1 + LASTLITERALS) <= oend

(* ... and for the length of a match, from behind its offset.              *)
MatchRoom(end, length) == end + length \div 255 + (1 + LASTLITERALS) <= oend

OffsetEnd(start, literals) == start + 1 + LengthBytes(literals) + literals + 2

LiteralsReach(start, literals) == start + 1 + LengthBytes(literals) + WildCopy8(literals)

(* The literals up to position and a match of length n there, written at   *)
(* start.                                                                  *)
Write(start, position, n) ==
  LET literals == position - anchor
      offset   == OffsetEnd(start, literals)
  IN  /\ op' = offset + LengthBytes(n - MINMATCH)
      /\ anchor' = position + n /\ ip' = position + n
      /\ reached' = Most(reached, Most(LiteralsReach(start, literals), op'))
      /\ lastSequence' = [literals |-> position, code |-> offset - 2, match |-> position + n]

(* Lengths of the match of a sequence whose match starts at position.      *)
Lengths(position) ==
  { n \in MatchLengths : n <= matchlimit - position } \cup { matchlimit - position }

LZ4HC_encodeSequence ==
  /\ pc = "main"
  /\ \E literals \in LitLengths :
       /\ anchor + literals <= mflimit
       /\ \E n \in Lengths(anchor + literals) :
            LET roomForMatch == MatchRoom(OffsetEnd(op, literals), n - MINMATCH)
            IN  \/ /\ limit # "notLimited" => LiteralRoom(literals) /\ roomForMatch
                   /\ Write(op, anchor + literals, n)
                   /\ UNCHANGED << pc, ml >>
                \/ /\ limit # "notLimited" /\ ~LiteralRoom(literals)
                   /\ op' = op + 1
                   /\ ip' = anchor + literals /\ ml' = n /\ pc' = "overflow"
                   /\ UNCHANGED << anchor, lastSequence, reached >>
                \/ /\ limit # "notLimited" /\ LiteralRoom(literals) /\ ~roomForMatch
                   /\ op' = OffsetEnd(op, literals)
                   /\ reached' = Most(reached, Most(LiteralsReach(op, literals), op'))
                   /\ ip' = anchor + literals /\ ml' = n /\ pc' = "overflow"
                   /\ UNCHANGED << anchor, lastSequence >>
  /\ optr' = op
  /\ UNCHANGED highCaller

(* No more matches.                                                        *)
SearchEnds ==
  /\ pc = "main"
  /\ pc' = "last"
  /\ UNCHANGED << highCaller, anchor, ip, ml, op, optr, lastSequence, reached >>

-----------------------------------------------------------------------------
(* _dest_overflow: what the literals take, and the longest match that can  *)
(* follow them.                                                            *)
ll_totalCost == 1 + (ip - anchor + 240) \div 255 + (ip - anchor)
maxLitPos    == oend - 3
maxMlSize    == MINMATCH + (ML_MASK - 1) + (maxLitPos - (optr + ll_totalCost)) * 255

(* Far enough from the end of the output for a match to start.             *)
FarFromEnd(n) == capacity - (optr + ll_totalCost + 2) - 1 + n >= MFLIMIT

DestOverflow ==
  /\ pc = "overflow"
  /\ \/ /\ limit = "limitedOutput"
        /\ pc' = "failed"
        /\ UNCHANGED << anchor, ip, op, lastSequence, reached >>
     \/ /\ limit = "fillOutput"
        /\ pc' = "last"
        /\ LET n    == Least(ml, maxMlSize)
               fits == optr + ll_totalCost <= maxLitPos /\ FarFromEnd(n)
           IN  \/ fits /\ Write(optr, ip, n)
               \/ ~fits /\ op' = optr /\ UNCHANGED << anchor, ip, lastSequence, reached >>
  /\ UNCHANGED << highCaller, ml, optr >>

(* What of the last run fits, the bytes of its length included.            *)
adaptedRun ==
  LET lastRun == capacity - op - 1
  IN  lastRun - (lastRun + 256 - RUN_MASK) \div 256

LastLiterals ==
  /\ pc = "last"
  /\ LET lastRun == iend - anchor
         fits == op + 1 + (lastRun + 255 - RUN_MASK) \div 255 + lastRun <= capacity
         WriteRun(n) == /\ op' = op + 1 + LengthBytes(n) + n
                        /\ ip' = anchor + n
                        /\ reached' = Most(reached, op')
                        /\ pc' = "done"
     IN  \/ (limit # "notLimited" => fits) /\ WriteRun(lastRun)
         \/ limit = "limitedOutput" /\ ~fits /\ pc' = "failed" /\ UNCHANGED << ip, op, reached >>
         \/ limit = "fillOutput" /\ ~fits /\ WriteRun(adaptedRun)
  /\ UNCHANGED << highCaller, anchor, ml, optr, lastSequence >>

HighNext ==
  \/ LZ4HC_encodeSequence \/ SearchEnds \/ DestOverflow \/ LastLiterals

Returned == pc \in { "done", "failed" } /\ UNCHANGED highVars

HighSpec == HighInit /\ [][HighNext \/ Returned]_highVars

-----------------------------------------------------------------------------
(* Nothing is written past the capacity, not even by the copies of         *)
(* literals that run over: the checks have just the margin they need.      *)
HighInsideCapacity == reached <= capacity

(* The block is one the decoder accepts: its last match and what follows   *)
(* keep the distances of the format from both ends, also when the last     *)
(* sequence was squeezed in or its match shortened.                        *)
HighAccepted ==
  pc = "done" /\ lastSequence # NoSequence =>
    /\ lastSequence.literals <= ip - MFLIMIT
    /\ lastSequence.code <= op - (2 + 1 + LASTLITERALS)
    /\ lastSequence.match <= ip - LASTLITERALS

(* All of the input is compressed, or as much as fills the output.         *)
HighFilledUp ==
  pc = "done" =>
    \/ ip = srcSize
    \/ limit = "fillOutput" /\ op >= capacity - 1
=============================================================================
