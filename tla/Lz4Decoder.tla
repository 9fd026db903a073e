----------------------------- MODULE Lz4Decoder -----------------------------
(***************************************************************************)
(* LZ4_decompress_generic for blocks whose compressed size is known (the   *)
(* LZ4_decompress_safe family), on the level of positions: where it reads  *)
(* the block, writes the output and looks back, for every block, also a    *)
(* damaged one.  The bytes are left open but for the codes they stand for. *)
(* Positions in the block and in the output count from their first byte;   *)
(* bytes decoded before lie directly below the output (the prefix, at      *)
(* negative positions) or in an external dictionary.                       *)
(***************************************************************************)
EXTENDS Integers

MINMATCH                 == 4
WILDCOPYLENGTH           == 8
LASTLITERALS             == 5
MFLIMIT                  == 12
MATCH_SAFEGUARD_DISTANCE == 12
FASTLOOP_SAFE_DISTANCE   == 64
RUN_MASK                 == 15
ML_MASK                  == 15
Distance64KB             == 65536

CONSTANTS
  Calls,                  \* the arguments of the decoder
  LZ4_FAST_DEC_LOOP,      \* a switch of the build, off on the controller
  Codes,                  \* values of a half of a token
  Extra,                  \* values of the bytes that lengthen a length
  Offsets                 \* values of the two bytes of an offset

(* What the entry points pass: a prefix of 64 KB is below the output when  *)
(* dict says so, and only usingExtDict comes with a dictionary.            *)
CallType ==
  { c \in [srcSize : Nat, outputSize : Nat, partialDecoding : BOOLEAN,
           dict : { "noDict", "withPrefix64k", "usingExtDict" },
           prefixSize : Nat, dictSize : Nat] :
      /\ c.dict = "withPrefix64k" => c.prefixSize = Distance64KB
      /\ c.dict # "usingExtDict"  => c.dictSize = 0 }

VARIABLES
  call,
  pc,        \* the loop, and the half of a sequence, that comes next
  ip, op,
  code,      \* lower half of the token, for the length of the match
  touched    \* history: << buffer, from, to >> used in the last step

decoderVars == << call, pc, ip, op, code, touched >>

iend == call.srcSize
oend == call.outputSize
lowPrefix == 0 - call.prefixSize
checkOffset == call.dictSize < Distance64KB

DecoderInit ==
  /\ call \in Calls
  /\ pc = "begin"
  /\ ip = 0 /\ op = 0 /\ code = 0
  /\ touched = {}

Most(a, b)  == IF a > b THEN a ELSE b
Least(a, b) == IF a < b THEN a ELSE b

(* What a copy of n bytes covers that goes in steps of 8, of 32: at least  *)
(* one step is made.                                                       *)
WildCopy8(n)  == 8 * ((Most(n, 1) + 7) \div 8)
WildCopy32(n) == 32 * ((Most(n, 1) + 31) \div 32)

Read(from, to)     == << "src", from, to >>
Written(from, to)  == << "dst", from, to >>
LookBack(from, to) == << "back", from, to >>
FromDict(from, to) == << "dict", from, to >>

-----------------------------------------------------------------------------
(* The special cases, and the choice of the loop.                          *)
Begin ==
  /\ pc = "begin"
  /\ \/ oend = 0 /\ call.partialDecoding /\ pc' = "done"
     \/ oend = 0 /\ ~call.partialDecoding /\ pc' = "error"
     \/ oend = 0 /\ ~call.partialDecoding /\ iend = 1 /\ pc' = "done"
     \/ oend # 0 /\ iend = 0 /\ pc' = "error"
     \/ /\ oend # 0 /\ iend # 0
        /\ pc' = IF LZ4_FAST_DEC_LOOP /\ oend >= FASTLOOP_SAFE_DISTANCE THEN "fast" ELSE "safe"
  /\ touched' = IF oend = 0 /\ iend = 1 /\ ~call.partialDecoding THEN { Read(0, 1) } ELSE {}
  /\ UNCHANGED << call, ip, op, code >>

(* read_variable_length from position at: bytes up to one that is not 255; *)
(* late says that the last of them ends at lencheck or beyond.             *)
VariableLength(at, lencheck) ==
  { v \in { [ip |-> at + n, add |-> 255 * (n - 1) + s, late |-> at + n >= lencheck] :
              n \in 1 .. Most(1, lencheck - at), s \in Extra } :
      v.add - 255 * (v.ip - at - 1) = 255 => v.late }

(* _output_error, the block read up to i.                                  *)
Fail(i) ==
  /\ pc' = "error"
  /\ touched' = { Read(ip, i) }
  /\ UNCHANGED << call, ip, op, code >>

(* The sequence goes on at next: len literals from i on are copied, the    *)
(* copy covers wide bytes.                                                 *)
CopyLiterals(i, len, wide, next) ==
  /\ ip' = i + len
  /\ op' = op + len
  /\ pc' = next
  /\ code' \in IF next = "done" THEN { 0 } ELSE Codes
  /\ touched' = { Read(ip, i + wide), Written(op, op + wide) }
  /\ UNCHANGED call

(* safe_literal_copy: near the end of either buffer it is the last         *)
(* sequence, or the decoder was asked for a part only.                     *)
EndsSoonLastLiterals(i, len) ==
  op + len > oend - LASTLITERALS \/ i + len > iend - (2 + 1 + LASTLITERALS)
EndsSoon(i, len) == op + len > oend - MFLIMIT \/ i + len > iend - (2 + 1 + LASTLITERALS)

WholeBlockRoomOnly(i, len) == i + len <= iend /\ op + len <= oend
WholeBlock(i, len) == i + len = iend /\ op + len <= oend

SafeLiteralCopy(i, len) ==
  \/ /\ ~EndsSoon(i, len)
     /\ CopyLiterals(i, len, WildCopy8(len), "match")
  \/ /\ EndsSoon(i, len) /\ ~call.partialDecoding
     /\ IF WholeBlock(i, len) THEN CopyLiterals(i, len, len, "done") ELSE Fail(i)
  \/ /\ EndsSoon(i, len) /\ call.partialDecoding
     /\ LET cut == Least(len, Least(iend - i, oend - op))
            end == op + cut = oend \/ i + cut >= iend - 2
        IN  CopyLiterals(i, cut, cut, IF end THEN "done" ELSE "match")

-----------------------------------------------------------------------------
(* A match of len bytes at distance off of o, the block read up to i.      *)
OutsideBuffers(o, off) == checkOffset /\ o - off + call.dictSize < lowPrefix
InDictionary(o, off)   == call.dict = "usingExtDict" /\ o - off < lowPrefix

RoomFor(o, len) == Least(len, oend - o)

CopyFromDictionary(i, o, len, off, before, next) ==
  LET cut  == IF o + len > oend - LASTLITERALS THEN RoomFor(o, len) ELSE len
      away == lowPrefix - (o - off)
      here == Least(cut, away)
  IN  /\ ip' = i
      /\ op' = o + cut
      /\ pc' = next
      /\ touched' = before \union
           { Read(ip, i), Written(o, o + cut), LookBack(lowPrefix, lowPrefix + cut - here),
             FromDict(call.dictSize - away, call.dictSize - away + here) }
      /\ code' = 0
      /\ UNCHANGED call

CopyMatch(i, o, len, wide, off, before, next) ==
  /\ ip' = i
  /\ op' = o + len
  /\ pc' = next
  /\ touched' = before \union
       { Read(ip, i), Written(o, o + wide), LookBack(o - off, o - off + wide) }
  /\ code' = 0
  /\ UNCHANGED call

(* What is covered by the copy of a match that ends near the end of the    *)
(* output: eight bytes, then steps of eight to seven bytes before the end, *)
(* then single bytes.                                                      *)
Guarded(o, len) ==
  LET oCopyLimit == oend - (WILDCOPYLENGTH - 1)
  IN  Most(len, 8 + IF o + 8 < oCopyLimit THEN WildCopy8(oCopyLimit - o - 8) ELSE 0)

(* safe_match_copy.                                                        *)
SafeMatchCopy(i, o, len, off, before) ==
  \/ OutsideBuffers(o, off) /\ Fail(i)
  \/ /\ ~OutsideBuffers(o, off) /\ InDictionary(o, off)
     /\ IF o + len > oend - LASTLITERALS /\ ~call.partialDecoding THEN Fail(i)
        ELSE CopyFromDictionary(i, o, len, off, before, "safe")
  \/ /\ ~OutsideBuffers(o, off) /\ ~InDictionary(o, off)
     /\ call.partialDecoding /\ o + len > oend - MATCH_SAFEGUARD_DISTANCE
     /\ LET cut == RoomFor(o, len)
        IN  CopyMatch(i, o, cut, cut, off, before, IF o + cut = oend THEN "done" ELSE "safe")
  \/ /\ ~OutsideBuffers(o, off) /\ ~InDictionary(o, off)
     /\ ~call.partialDecoding /\ o + len > oend - LASTLITERALS
     /\ CopyMatch(i, o, 0, 8, off, before, "error")
  \/ /\ ~OutsideBuffers(o, off) /\ ~InDictionary(o, off)
     /\ ~call.partialDecoding /\ o + len > oend - MATCH_SAFEGUARD_DISTANCE
     /\ o + len <= oend - LASTLITERALS
     /\ CopyMatch(i, o, len, Guarded(o, len), off, before, "safe")
  \/ /\ ~OutsideBuffers(o, off) /\ ~InDictionary(o, off)
     /\ o + len <= oend - MATCH_SAFEGUARD_DISTANCE
     /\ CopyMatch(i, o, len, Most(16, WildCopy8(len)), off, before, "safe")

(* The length of a match with code m that is read from i on; the bytes of  *)
(* a long one must not reach the last literals.                            *)
MatchLength(i, m) ==
  IF m # ML_MASK THEN { [ip |-> i, add |-> m + MINMATCH, late |-> FALSE] }
  ELSE { [v EXCEPT !.add = @ + ML_MASK + MINMATCH] :
           v \in VariableLength(i, iend - LASTLITERALS + 1) }

-----------------------------------------------------------------------------
(* The fast loop.  A token, and literals.                                  *)
FastShortLiterals ==
  /\ pc = "fast"
  /\ \E lit \in Codes \ { RUN_MASK } :
       IF ip + 1 > iend - (16 + 1) THEN SafeLiteralCopy(ip + 1, lit)
       ELSE CopyLiterals(ip + 1, lit, 16, "fastMatch")

FastLongLiterals ==
  /\ pc = "fast" /\ RUN_MASK \in Codes
  /\ \/ ip + 1 >= iend - RUN_MASK /\ Fail(ip + 1)
     \/ /\ ip + 1 < iend - RUN_MASK
        /\ \E v \in VariableLength(ip + 1, iend - RUN_MASK) :
             LET len == RUN_MASK + v.add
             IN  IF op + len > oend - 32 \/ v.ip + len > iend - 32
                 THEN SafeLiteralCopy(v.ip, len)
                 ELSE CopyLiterals(v.ip, len, WildCopy32(len), "fastMatch")

(* A match that ends far from the end of the output is copied as 18 bytes, *)
(* from the dictionary, in steps of 8 when the source overlaps, or of 32.  *)
Simple(o, m, off) ==
  /\ m # ML_MASK /\ off >= 8
  /\ call.dict = "withPrefix64k" \/ o - off >= lowPrefix

FastMatchCopy(i, len, off) ==
  \/ Simple(op, code, off) /\ CopyMatch(i, op, len, 18, off, {}, "fast")
  \/ ~Simple(op, code, off) /\ OutsideBuffers(op, off) /\ Fail(i)
  \/ /\ ~Simple(op, code, off) /\ ~OutsideBuffers(op, off) /\ InDictionary(op, off)
     /\ CopyFromDictionary(i, op, len, off, {}, "fast")
  \/ /\ ~Simple(op, code, off) /\ ~OutsideBuffers(op, off) /\ ~InDictionary(op, off)
     /\ CopyMatch(i, op, len, IF off < 16 THEN Most(16, WildCopy8(len)) ELSE WildCopy32(len),
                  off, {}, "fast")

(* The offset, the length, and the match.                                  *)
FastMatch ==
  /\ pc = "fastMatch"
  /\ \E off \in Offsets :
       \/ code = ML_MASK /\ OutsideBuffers(op, off) /\ Fail(ip + 2)
       \/ /\ ~(code = ML_MASK /\ OutsideBuffers(op, off))
          /\ \E v \in MatchLength(ip + 2, code) :
               IF v.late THEN Fail(v.ip)
               ELSE IF op + v.add >= oend - FASTLOOP_SAFE_DISTANCE
               THEN SafeMatchCopy(v.ip, op, v.add, off, {})
               ELSE FastMatchCopy(v.ip, v.add, off)

-----------------------------------------------------------------------------
(* The safe loop.  In the shortcut a sequence without lengthened lengths   *)
(* is copied as 16 and 18 bytes, when there is room for both.              *)
ShortcutTaken(lit) == lit # RUN_MASK /\ ip + 1 < iend - (14 + 2) /\ op <= oend - (14 + 18)

Shortcut ==
  /\ pc = "safe"
  /\ \E lit \in Codes, m \in Codes, off \in Offsets :
       LET i == ip + 1 + lit
           o == op + lit
           before == { Read(ip, ip + 1 + 16), Written(op, op + 16) }
       IN  /\ ShortcutTaken(lit)
           /\ \/ Simple(o, m, off) /\ CopyMatch(i + 2, o, m + MINMATCH, 18, off, before, "safe")
              \/ /\ ~Simple(o, m, off)
                 /\ \E v \in MatchLength(i + 2, m) :
                      IF v.late THEN Fail(v.ip) ELSE SafeMatchCopy(v.ip, o, v.add, off, before)

SafeLiterals ==
  /\ pc = "safe"
  /\ \E lit \in Codes :
       /\ ~ShortcutTaken(lit)
       /\ \/ lit # RUN_MASK /\ SafeLiteralCopy(ip + 1, lit)
          \/ lit = RUN_MASK /\ ip + 1 >= iend - RUN_MASK /\ Fail(ip + 1)
          \/ /\ lit = RUN_MASK /\ ip + 1 < iend - RUN_MASK
             /\ \E v \in VariableLength(ip + 1, iend - RUN_MASK) :
                  SafeLiteralCopy(v.ip, RUN_MASK + v.add)

SafeMatch ==
  /\ pc = "match"
  /\ \E off \in Offsets, v \in MatchLength(ip + 2, code) :
       IF v.late THEN Fail(v.ip) ELSE SafeMatchCopy(v.ip, op, v.add, off, {})

DecoderNext ==
  \/ Begin
  \/ FastShortLiterals \/ FastLongLiterals \/ FastMatch
  \/ Shortcut \/ SafeLiterals \/ SafeMatch

(* The function has returned.                                              *)
Returned == pc \in { "done", "error" } /\ UNCHANGED decoderVars

DecoderSpec == DecoderInit /\ [][DecoderNext \/ Returned]_decoderVars

-----------------------------------------------------------------------------
(* Whatever the block says, the decoder stays inside the four buffers: it  *)
(* reads inside the block, writes inside the output, and looks back no     *)
(* further than to the bytes that were decoded before.  The wide copies    *)
(* write past their end, so this rests on the margins of every branch.     *)
Low(buffer)  == IF buffer = "back" THEN lowPrefix ELSE 0
High(buffer) == CASE buffer = "src"  -> iend
                  [] buffer = "dict" -> call.dictSize
                  [] OTHER           -> oend

InsideBuffers == \A t \in touched : Low(t[1]) <= t[2] /\ t[2] <= t[3] /\ t[3] <= High(t[1])

(* A decoder that was asked for the whole block reports success only when  *)
(* it has read all of it, and one that was asked for a part stops early    *)
(* only when the output is full or no further match can follow.            *)
NothingLeftOut ==
  pc = "done" /\ oend > 0 =>
    IF call.partialDecoding THEN op = oend \/ ip >= iend - 2 ELSE ip = iend
=============================================================================
