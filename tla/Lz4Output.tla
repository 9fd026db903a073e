----------------------------- MODULE Lz4Output ------------------------------
(***************************************************************************)
(* What LZ4_compress_generic writes, and where: the compressor on the      *)
(* level of positions in the input (ip, anchor) and in the output (op),    *)
(* with the real constants.  Which matches there are is left open; module  *)
(* Lz4Stream says how they are found.  A caller gives a capacity: with     *)
(* enough for the worst case nothing is checked (notLimited), with less    *)
(* the compressor gives up (limitedOutput) or compresses as much of the    *)
(* input as fits (fillOutput, LZ4_compress_destSize).                      *)
(***************************************************************************)
EXTENDS Lz4Format

CONSTANTS
  SrcSizes, Capacities,
  LitLengths, MatchCodes   \* lengths that are looked at, besides the longest match

VARIABLES
  srcSize, capacity,
  destSize,            \* the caller is LZ4_compress_destSize
  pc,
  anchor, ip, op,
  token,               \* where the token of the sequence is
  lastSequence,        \* history: ends of the last sequence with a match
  reached              \* history: end of the bytes that were written

outputVars == << srcSize, capacity, destSize, pc, anchor, ip, op, token, lastSequence, reached >>
caller     == << srcSize, capacity, destSize >>

(* LZ4_compress_fast_extState and LZ4_compress_destSize_extState.          *)
outputDirective ==
  IF capacity >= LZ4_compressBound(srcSize) THEN "notLimited"
  ELSE IF destSize THEN "fillOutput" ELSE "limitedOutput"

olimit         == capacity
iend           == srcSize
mflimitPlusOne == iend - MFLIMIT + 1
matchlimit     == iend - LASTLITERALS

NoSequence == [literals |-> 0, code |-> 0, match |-> 0]

OutputInit ==
  /\ srcSize \in SrcSizes /\ capacity \in Capacities /\ destSize \in BOOLEAN
  /\ pc = "begin"
  /\ anchor = 0 /\ ip = 0 /\ op = 0 /\ token = 0
  /\ lastSequence = NoSequence
  /\ reached = 0

-----------------------------------------------------------------------------
(* LZ4_compress_generic: an empty input is one byte.                       *)
Begin ==
  /\ pc = "begin"
  /\ \/ /\ srcSize = 0 /\ outputDirective # "notLimited" /\ capacity = 0
        /\ pc' = "failed" /\ UNCHANGED << op, reached >>
     \/ /\ srcSize = 0 /\ capacity > 0
        /\ pc' = "done" /\ op' = 1 /\ reached' = 1
     \/ /\ srcSize # 0 /\ outputDirective = "fillOutput" /\ capacity < 1
        /\ pc' = "failed" /\ UNCHANGED << op, reached >>
     \/ /\ srcSize # 0 /\ ~(outputDirective = "fillOutput" /\ capacity < 1)
        /\ pc' = IF srcSize < LZ4_minLength THEN "last" ELSE "search"
        /\ UNCHANGED << op, reached >>
  /\ UNCHANGED << caller, anchor, ip, token, lastSequence >>

(* Room for the literals of a sequence whose token is at op; the copy of   *)
(* the literals may run over, and a match and last literals must follow.   *)
FillRoom(litLength) ==
  op + 1 + (litLength + 240) \div 255 + litLength + 2 + 1 + MFLIMIT - MINMATCH <= olimit
LimitedRoom(litLength) ==
  op + 1 + litLength + (2 + 1 + LASTLITERALS) + litLength \div 255 <= olimit

NoMatchFound ==
  /\ pc = "search"
  /\ pc' = "last"
  /\ UNCHANGED << caller, anchor, ip, op, token, lastSequence, reached >>

(* A match was found litLength behind the anchor: the literals.            *)
EncodeLiterals ==
  /\ pc = "search"
  /\ \E litLength \in LitLengths :
       /\ anchor + litLength < mflimitPlusOne
       /\ \/ /\ outputDirective = "limitedOutput" /\ ~LimitedRoom(litLength)
             /\ pc' = "failed"
             /\ UNCHANGED << ip, op, token, reached >>
          \/ /\ outputDirective = "fillOutput" /\ ~FillRoom(litLength)
             /\ pc' = "last"
             /\ UNCHANGED << ip, op, token, reached >>
          \/ /\ outputDirective = "limitedOutput" => LimitedRoom(litLength)
             /\ outputDirective = "fillOutput" => FillRoom(litLength)
             /\ LET start == op + 1 + LengthBytes(litLength)
                IN  /\ op' = start + litLength
                    /\ reached' = Most(reached, start + WildCopy8(litLength))
             /\ token' = op
             /\ ip' = anchor + litLength
             /\ pc' = "match"
  /\ UNCHANGED << caller, anchor, lastSequence >>

(* The room for a match after its offset was written at op.                *)
MatchRoom(matchCode) == op + 2 + (1 + LASTLITERALS) + (matchCode + 240) \div 255 <= olimit

(* The longest match that fits.                                            *)
newMatchCode == 15 - 1 + (olimit - (op + 2) - 1 - LASTLITERALS) * 255

LongestMatch == matchlimit - (ip + MINMATCH)

(* The offset and the length of the match; the bytes of a long length are  *)
(* written four at a time.                                                 *)
WriteMatch(matchCode) ==
  LET long == matchCode >= ML_MASK
      wide == 4 * ((matchCode - ML_MASK) \div (4 * 255)) + 4
  IN  /\ op' = op + 2 + LengthBytes(matchCode)
      /\ reached' = Most(reached, Most(op', IF long THEN op + 2 + wide ELSE 0))
      /\ ip' = ip + MINMATCH + matchCode
      /\ anchor' = ip'
      /\ lastSequence' = [literals |-> ip, code |-> op, match |-> ip']
      /\ \/ pc' = "next" /\ ip' < mflimitPlusOne
         \/ pc' = "last" /\ ip' >= mflimitPlusOne
      /\ UNCHANGED token

TooLateForMatchOnly == op + 2 + 1 > olimit
TooLateForMatch == op + 2 + 1 + MFLIMIT - MINMATCH > olimit

EncodeMatch ==
  /\ pc = "match"
  /\ \/ /\ outputDirective = "fillOutput" /\ TooLateForMatch
        /\ op' = token
        /\ pc' = "last"
        /\ UNCHANGED << anchor, ip, token, lastSequence, reached >>
     \/ /\ ~(outputDirective = "fillOutput" /\ TooLateForMatch)
        /\ \E matchCode \in { c \in MatchCodes : c <= LongestMatch } \union { LongestMatch } :
             \/ /\ outputDirective # "notLimited" => MatchRoom(matchCode)
                /\ WriteMatch(matchCode)
             \/ /\ outputDirective = "limitedOutput" /\ ~MatchRoom(matchCode)
                /\ pc' = "failed"
                /\ reached' = Most(reached, op + 2)
                /\ UNCHANGED << anchor, ip, op, token, lastSequence >>
             \/ /\ outputDirective = "fillOutput" /\ ~MatchRoom(matchCode)
                /\ WriteMatch(newMatchCode)
  /\ UNCHANGED caller

(* Is there a match right after the match?                                 *)
NextPosition ==
  /\ pc = "next"
  /\ \/ /\ pc' = "match" /\ token' = op /\ op' = op + 1
        /\ reached' = Most(reached, op + 1)
     \/ pc' = "search" /\ UNCHANGED << token, op, reached >>
  /\ UNCHANGED << caller, anchor, ip, lastSequence >>

(* What of the last run fits, the bytes of its length included.            *)
adaptedRun ==
  LET lastRun == olimit - op - 1
  IN  lastRun - (lastRun + 256 - RUN_MASK) \div 256

LastLiterals ==
  /\ pc = "last"
  /\ LET lastRun == iend - anchor
         fits == op + lastRun + 1 + (lastRun + 255 - RUN_MASK) \div 255 <= olimit
         WriteRun(n) == /\ op' = op + 1 + LengthBytes(n) + n
                        /\ ip' = anchor + n
                        /\ reached' = Most(reached, op')
                        /\ pc' = "done"
     IN  \/ (outputDirective # "notLimited" => fits) /\ WriteRun(lastRun)
         \/ /\ outputDirective = "limitedOutput" /\ ~fits
            /\ pc' = "failed" /\ UNCHANGED << ip, op, reached >>
         \/ outputDirective = "fillOutput" /\ ~fits /\ WriteRun(adaptedRun)
  /\ UNCHANGED << caller, anchor, token, lastSequence >>

OutputNext ==
  \/ Begin \/ NoMatchFound \/ EncodeLiterals \/ EncodeMatch \/ NextPosition \/ LastLiterals

Returned == pc \in { "done", "failed" } /\ UNCHANGED outputVars

OutputSpec == OutputInit /\ [][OutputNext \/ Returned]_outputVars

-----------------------------------------------------------------------------
(* The compressor never writes past the capacity it was given, not even    *)
(* with the copies that run over, and with the capacity of                 *)
(* LZ4_compressBound it needs no check for that.                           *)
InsideCapacity == reached <= capacity

(* What comes out is a block the decoder accepts with an output buffer of  *)
(* exactly the size of the input that was consumed: apart from the last    *)
(* one, literals end at least 12 bytes before the end of the output and 8  *)
(* before the end of the block, and a match ends at least 5 bytes before   *)
(* the end of the output; this also when destSize cut the input short.     *)
DecoderAccepts ==
  pc = "done" /\ lastSequence # NoSequence =>
    /\ lastSequence.literals <= ip - MFLIMIT
    /\ lastSequence.code <= op - (2 + 1 + LASTLITERALS)
    /\ lastSequence.match <= ip - LASTLITERALS

(* Without destSize the whole input is compressed or none of it; with it,  *)
(* an input is cut short only when less room is left than two bytes.       *)
FilledUp ==
  pc = "done" =>
    \/ ip = srcSize
    \/ outputDirective = "fillOutput" /\ op >= capacity - 1
=============================================================================
